---- MODULE Spec2Model ----
(***************************************************************************)
(* Trade execution / simulation kernel of the crypto trading bot:          *)
(*   - BacktestEngine          (src/src/backtesting/engine.py)             *)
(*   - PaperTradingValidator   (src/src/trading/paper_validator.py)        *)
(*   - LiveTradingEngine       (src/src/trading/live_engine.py)            *)
(* Money, prices and quantities are Python floats in the source; they are  *)
(* modelled as exact rationals [n |-> numerator, d |-> denominator > 0] in *)
(* lowest terms, so that equalities of the arithmetic can be decided.      *)
(***************************************************************************)
EXTENDS Integers, Sequences, FiniteSets, TLC

\* ------------------------------------------------------------------------
\* Bounds of the model
\* ------------------------------------------------------------------------

\* Largest number of rows of a replayed bar table (len(df)).
MaxBars == 4

\* Largest number of iterations of the live loop that are followed.
MaxIters == 3

\* Largest number of direct calls of the open / close operations.
MaxCalls == 4

\* A paper buy is followed only from a free balance n/d with n * d at most
\* this: beyond it the amounts of the fill leave the integers of the checker.
MaxAmount == 400

\* ------------------------------------------------------------------------
\* Exact rational arithmetic
\* ------------------------------------------------------------------------

Abs(x) == IF x < 0 THEN -x ELSE x

RECURSIVE GCD(_, _)
GCD(a, b) == IF b = 0 THEN a ELSE GCD(b, a % b)

Rat(n, d) ==
    LET g == GCD(Abs(n), Abs(d))
        s == IF d < 0 THEN -1 ELSE 1
    IN  [n |-> (s * n) \div g, d |-> (s * d) \div g]

RInt(k) == [n |-> k, d |-> 1]

RZero == RInt(0)

ROne == RInt(1)

RNeg(a) == [n |-> -a.n, d |-> a.d]

RAdd(a, b) ==
    LET g == GCD(a.d, b.d)
    IN  Rat(a.n * (b.d \div g) + b.n * (a.d \div g), (a.d \div g) * b.d)

RSub(a, b) == RAdd(a, RNeg(b))

\* cross-reduced product: no intermediate value exceeds the result's terms
RMul(a, b) ==
    LET g1 == GCD(Abs(a.n), b.d)
        g2 == GCD(Abs(b.n), a.d)
    IN  [n |-> (a.n \div g1) * (b.n \div g2), d |-> (a.d \div g2) * (b.d \div g1)]

RInv(a) == IF a.n < 0 THEN [n |-> -a.d, d |-> -a.n] ELSE [n |-> a.d, d |-> a.n]

RDiv(a, b) == RMul(a, RInv(b))

RLe(a, b) == a.n * b.d <= b.n * a.d

RLt(a, b) == a.n * b.d < b.n * a.d

RMin(a, b) == IF RLe(a, b) THEN a ELSE b

RMax(a, b) == IF RLe(a, b) THEN b ELSE a

\* Python's None
None == [none |-> TRUE]

\* Python truthiness of an Optional[float]: None and 0.0 are falsy
Truthy(x) == x # None /\ x.n # 0

\* ------------------------------------------------------------------------
\* Inputs
\* ------------------------------------------------------------------------

\* Signal enum (strategies/base.py)
BUY == "buy"

SELL == "sell"

HOLD == "hold"

\* price levels of the bars of a replayed table
Prices == {RInt(2), RInt(4)}

\* OHLC rows: low <= close <= high
Bars == {b \in [low : Prices, close : Prices, high : Prices] :
            RLe(b.low, b.close) /\ RLe(b.close, b.high)}

\* TradeSignal values a strategy can return from analyze()
Signals ==
    {[signal |-> HOLD, stop_loss |-> None, take_profit |-> None],
     [signal |-> SELL, stop_loss |-> None, take_profit |-> None]}
    \cup [signal : {BUY}, stop_loss : {None, RInt(3)}, take_profit : {None, RInt(4)}]

\* constructor arguments of BacktestEngine / PaperTradingValidator, and the
\* strategy's get_required_history()
RunnerArgs ==
    {[initial_capital |-> RInt(100), fee_percent |-> RInt(10),
      slippage_percent |-> RInt(25), position_size |-> RInt(2), min_history |-> 0],
     [initial_capital |-> RInt(100), fee_percent |-> RInt(25),
      slippage_percent |-> RZero, position_size |-> Rat(1, 2), min_history |-> 1],
     [initial_capital |-> RInt(100), fee_percent |-> RZero,
      slippage_percent |-> RInt(25), position_size |-> Rat(1, 200), min_history |-> 2]}

\* the symbol a live session trades
Symbol == "BTC/USDT"

\* last closes and ticker prices of a live session
LivePrices == {RInt(2), RInt(4)}

\* fee an exchange order reports (LIVE mode)
ExchangeFees == {ROne}

\* free quote balance the exchange reports (0.0 also when the query fails)
ExchBalances == {RZero, RInt(1000)}

\* initial paper balance of the quote currency
InitialBalance == RInt(400)

\* position_size arguments of run_strategy
LivePositionSizes == {Rat(1, 2), ROne}

\* quantity arguments of direct open_position calls
Quantities == {RInt(1), RInt(300)}

\* the timestamp column: strictly increasing with the row index
timestamp_of(idx) == idx + 1

VARIABLES
    runner,         \* which runner this behaviour is a run of
    cfg,            \* constructor arguments of the runner
    N,              \* len(df)
    i,              \* loop index of run()
    pc,             \* position of run(): "loop", "done"
    capital,        \* BacktestEngine.capital / validator's balance
    position,       \* BacktestEngine.position / validator's position
    trades,         \* BacktestEngine.trades / validator's trades
    equity_curve,   \* BacktestEngine.equity_curve / validator's equity_log
    signals_log,    \* validator's signals_log
    analyze_calls,  \* indices strategy.analyze was called with, in order
    only_hold,      \* every signal analyze has returned so far was Hold
    twin,           \* the validation run made beside a batch run on the same
                    \* table and signals (None when no such run is made)
    row,            \* the row the loop handled last (df.iloc[i-1])
    event,          \* the last step: the branch it took, the signal analyze
                    \* returned (if called), the position it began with
    mode,           \* LiveTradingEngine.mode
    position_size,  \* run_strategy's position_size argument
    positions,      \* LiveTradingEngine.positions: symbol -> Position
    trade_history,  \* LiveTradingEngine.trade_history
    paper_balances, \* LiveTradingEngine.paper_balances: currency -> balance
    running,        \* LiveTradingEngine._running
    stop_event,     \* LiveTradingEngine._stop_event is set
    live_pc,        \* position of run_strategy
    iters,          \* iterations of the live loop so far (the clock)
    live_last,      \* the last iteration: what it fetched, the position it
                    \* began with, the signal, and the open/close calls it
                    \* made with the exchange's answer to each
    order_objects,  \* every SimulatedOrder a TradeSimulator has constructed,
                    \* in order of construction (callers keep the objects)
    orders,         \* TradeSimulator.orders: references into order_objects
    order_counter,  \* TradeSimulator._order_counter
    sim_last,       \* the last TradeSimulator call: its arguments and what
                    \* it returned
    engines,        \* every LiveTradingEngine start_live_trading has made
                    \* (its _running flag) with the thread started beside
                    \* it (where it is, and the engine whose run_strategy
                    \* it runs, 0 before it has read the global)
    live_engine,    \* server.py's global live_engine: None or [id |-> k],
                    \* a reference to engines[k]
    api_last,       \* the last request to the API and its answer
    sup_pc,         \* position of ProcessSupervisor.start
    clock,          \* datetime.now(), in ticks
    sup_running,    \* ProcessSupervisor._running
    shutdown_requested, \* ProcessSupervisor._shutdown_requested
    process,        \* ProcessSupervisor._process: the child started last
    restart_times,  \* ProcessSupervisor._state.restart_times
    current_delay,  \* ProcessSupervisor._state.current_delay
    started,        \* the time of every _start_process call, in order, and
                    \* whether shutdown had been requested before it
    results,        \* the BacktestResult objects run() has returned, in order
    lists,          \* the list objects made for trades: lists[k] is what the
                    \* k-th of them holds now
    trades_list     \* the list object self.trades refers to

replayVars == <<cfg, N, i, pc, capital, position, trades, equity_curve,
                signals_log, analyze_calls, only_hold, twin, row, event>>

liveVars == <<mode, position_size, positions, trade_history, paper_balances,
              running, stop_event, live_pc, iters, live_last>>

simVars == <<order_objects, orders, order_counter, sim_last>>

apiVars == <<engines, live_engine, api_last>>

supVars == <<sup_pc, clock, sup_running, shutdown_requested, process,
             restart_times, current_delay, started>>

rerunVars == <<results, lists, trades_list>>

vars == <<runner, replayVars, liveVars, simVars, apiVars, supVars, rerunVars>>

\* ------------------------------------------------------------------------
\* BacktestEngine kernel
\* ------------------------------------------------------------------------

\* BacktestEngine.__init__ / PaperTradingValidator.__init__: position_size clamp
clamp_position_size(size) ==
    RMin(ROne, RMax(Rat(1, 100), size))

\* ConfigManager.DEFAULT_CONFIG["backtesting"] (core/config.py): the rates a
\* session is configured with unless the user's file overrides them
DEFAULT_CONFIG ==
    [default_capital |-> RInt(10000), fee_percent |-> Rat(1, 10),
     slippage_percent |-> Rat(1, 20)]

\* BacktestEngine.__init__ (lines 110-113); the validator's is the same
\* (paper_validator.py 80-83)
construct(args) ==
    [initial_capital |-> args.initial_capital,
     fee |-> RDiv(args.fee_percent, RInt(100)),
     slippage |-> RDiv(args.slippage_percent, RInt(100)),
     position_size |-> clamp_position_size(args.position_size),
     min_history |-> args.min_history,
     args |-> args]

\* the engine a session builds from its configuration (cli/menu.py 245-249):
\* configured capital and rates, the default position_size of 1.0
configured_engine ==
    construct([initial_capital |-> DEFAULT_CONFIG.default_capital,
               fee_percent |-> DEFAULT_CONFIG.fee_percent,
               slippage_percent |-> DEFAULT_CONFIG.slippage_percent,
               position_size |-> ROne,
               min_history |-> 0])

\* BacktestEngine._apply_slippage
apply_slippage(c, price, side) ==
    IF side = "buy"
    THEN RMul(price, RAdd(ROne, c.slippage))
    ELSE RMul(price, RSub(ROne, c.slippage))

\* BacktestEngine._calculate_fee
calculate_fee(c, amount) == RMul(amount, c.fee)

\* _open_position sizing the quantity from the trade capital before the fee
open_position_fee_not_deducted(c, eng, timestamp, price, side) ==
    LET exec_price == apply_slippage(c, price, IF side = "long" THEN "buy" ELSE "sell")
        trade_capital == RMul(eng.capital, c.position_size)
        fee == calculate_fee(c, trade_capital)
        quantity == RDiv(trade_capital, exec_price)
    IN  [eng EXCEPT !.position =
            [side |-> side, entry_time |-> timestamp, entry_price |-> exec_price,
             quantity |-> quantity, entry_fee |-> fee,
             stop_loss |-> None, take_profit |-> None]]

\* BacktestEngine._open_position; eng = [capital, position, trades]
open_position(c, eng, timestamp, price, side) ==
    LET exec_price == apply_slippage(c, price, IF side = "long" THEN "buy" ELSE "sell")
        trade_capital == RMul(eng.capital, c.position_size)
        fee == calculate_fee(c, trade_capital)
        available == RSub(trade_capital, fee)
        quantity == RDiv(available, exec_price)
    IN  [eng EXCEPT !.position =
            [side |-> side, entry_time |-> timestamp, entry_price |-> exec_price,
             quantity |-> quantity, entry_fee |-> fee,
             stop_loss |-> None, take_profit |-> None]]

\* _close_position keeping only the new trade in the ledger
close_position_at_ledger_replaced(c, eng, timestamp, exec_price) ==
    LET pos == eng.position
        gross_pnl == IF pos.side = "long"
                     THEN RMul(RSub(exec_price, pos.entry_price), pos.quantity)
                     ELSE RMul(RSub(pos.entry_price, exec_price), pos.quantity)
        total_fee == RAdd(pos.entry_fee, calculate_fee(c, RMul(pos.quantity, exec_price)))
        net_pnl == RSub(gross_pnl, total_fee)
        trade == [entry_time |-> pos.entry_time, exit_time |-> timestamp,
                  side |-> pos.side, entry_price |-> pos.entry_price,
                  exit_price |-> exec_price, quantity |-> pos.quantity,
                  pnl |-> net_pnl,
                  pnl_percent |-> RMul(RDiv(net_pnl, RMul(pos.quantity, pos.entry_price)),
                                       RInt(100)),
                  fee |-> total_fee]
    IN  [capital |-> RAdd(eng.capital, trade.pnl),
         position |-> None,
         trades |-> <<trade>>]

\* BacktestEngine._close_position, lines 173-206, from the execution price:
\* pnl, fees, the Trade, capital += net_pnl, position = None
close_position_at(c, eng, timestamp, exec_price) ==
    LET pos == eng.position
        gross_pnl == IF pos.side = "long"
                     THEN RMul(RSub(exec_price, pos.entry_price), pos.quantity)
                     ELSE RMul(RSub(pos.entry_price, exec_price), pos.quantity)
        exit_value == RMul(pos.quantity, exec_price)
        exit_fee == calculate_fee(c, exit_value)
        total_fee == RAdd(pos.entry_fee, exit_fee)
        net_pnl == RSub(gross_pnl, total_fee)
        entry_value == RMul(pos.quantity, pos.entry_price)
        pnl_percent == RMul(RDiv(net_pnl, entry_value), RInt(100))
        trade == [entry_time |-> pos.entry_time, exit_time |-> timestamp,
                  side |-> pos.side, entry_price |-> pos.entry_price,
                  exit_price |-> exec_price, quantity |-> pos.quantity,
                  pnl |-> net_pnl, pnl_percent |-> pnl_percent, fee |-> total_fee]
    IN  [capital |-> RAdd(eng.capital, trade.pnl),
         position |-> None,
         trades |-> Append(eng.trades, trade)]

\* BacktestEngine._close_position (the caller guarantees a position)
close_position(c, eng, timestamp, price) ==
    close_position_at(c, eng, timestamp,
        apply_slippage(c, price, IF eng.position.side = "long" THEN "sell" ELSE "buy"))

\* _close_position returning silently when no position is open
try_close_position_silent(c, eng, timestamp, price) ==
    IF eng.position = None
    THEN [eng |-> eng, raised |-> FALSE]
    ELSE [eng |-> close_position(c, eng, timestamp, price), raised |-> FALSE]

\* BacktestEngine._close_position called in any state: ValueError("No
\* position to close") when none is open (lines 160-162); the result is
\* [eng, raised]
try_close_position(c, eng, timestamp, price) ==
    IF eng.position = None
    THEN [eng |-> eng, raised |-> TRUE]
    ELSE [eng |-> close_position(c, eng, timestamp, price), raised |-> FALSE]

\* BacktestEngine._calculate_equity
calculate_equity(eng, price) ==
    IF eng.position = None THEN eng.capital
    ELSE IF eng.position.side = "long"
         THEN RAdd(eng.capital,
                   RMul(RSub(price, eng.position.entry_price), eng.position.quantity))
         ELSE RAdd(eng.capital,
                   RMul(RSub(eng.position.entry_price, price), eng.position.quantity))

\* BacktestEngine.run, line 262-264: the stop loss of a long position is hit
batch_stop_loss_hit(pos, bar) ==
    /\ pos.side = "long"
    /\ Truthy(pos.stop_loss)
    /\ RLe(bar.low, pos.stop_loss)

\* BacktestEngine.run, lines 270-272: the take profit is hit
batch_take_profit_hit(pos, bar) ==
    /\ Truthy(pos.take_profit)
    /\ RLe(pos.take_profit, bar.high)

\* the risk check with the take profit tested before the stop loss
batch_risk_check_take_profit_first(c, eng, timestamp, bar) ==
    IF batch_take_profit_hit(eng.position, bar)
    THEN [eng |-> close_position(c, eng, timestamp, eng.position.take_profit),
          stopped_out |-> TRUE, event |-> "take_profit"]
    ELSE IF batch_stop_loss_hit(eng.position, bar)
    THEN [eng |-> close_position(c, eng, timestamp, eng.position.stop_loss),
          stopped_out |-> TRUE, event |-> "stop_loss"]
    ELSE [eng |-> eng, stopped_out |-> FALSE, event |-> "none"]

\* BacktestEngine.run, lines 257-275: stop loss, then (only when not stopped
\* out) take profit, on the open position; the result carries stopped_out
\* and the branch taken
batch_risk_check(c, eng, timestamp, bar) ==
    IF batch_stop_loss_hit(eng.position, bar)
    THEN [eng |-> close_position(c, eng, timestamp, eng.position.stop_loss),
          stopped_out |-> TRUE, event |-> "stop_loss"]
    ELSE IF batch_take_profit_hit(eng.position, bar)
    THEN [eng |-> close_position(c, eng, timestamp, eng.position.take_profit),
          stopped_out |-> TRUE, event |-> "take_profit"]
    ELSE [eng |-> eng, stopped_out |-> FALSE, event |-> "none"]

\* a stopped-out bar that falls through to the signal
batch_skip_signal_never(stopped_out) == FALSE

\* BacktestEngine.run, lines 277-289: a bar that was stopped out records its
\* equity point and continues with the next bar
batch_skip_signal(stopped_out) == stopped_out

\* BacktestEngine.run, lines 298-302: a truthy stop_loss / take_profit of the
\* signal is stored in the metadata of the position just opened
store_risk_levels(e, sig) ==
    [e EXCEPT !.position.stop_loss =
                  IF Truthy(sig.stop_loss) THEN sig.stop_loss ELSE @,
              !.position.take_profit =
                  IF Truthy(sig.take_profit) THEN sig.take_profit ELSE @]

\* the signal branch opening on every signal that is not Sell
batch_process_signal_opens_on_hold(c, eng, sig, timestamp, close_price) ==
    IF sig.signal # SELL /\ eng.position = None
    THEN store_risk_levels(open_position(c, eng, timestamp, close_price, "long"), sig)
    ELSE IF sig.signal = SELL /\ eng.position # None
         THEN close_position(c, eng, timestamp, close_price)
         ELSE eng

\* the signal branch opening on Buy without testing for an open position
batch_process_signal_unguarded(c, eng, sig, timestamp, close_price) ==
    IF sig.signal = BUY
    THEN store_risk_levels(open_position(c, eng, timestamp, close_price, "long"), sig)
    ELSE IF sig.signal = SELL /\ eng.position # None
         THEN close_position(c, eng, timestamp, close_price)
         ELSE eng

\* BacktestEngine.run, lines 294-305: act on the strategy's signal
batch_process_signal(c, eng, sig, timestamp, close_price) ==
    IF sig.signal = BUY /\ eng.position = None
    THEN store_risk_levels(open_position(c, eng, timestamp, close_price, "long"), sig)
    ELSE IF sig.signal = SELL /\ eng.position # None
         THEN close_position(c, eng, timestamp, close_price)
         ELSE eng

\* the branch batch_process_signal takes
signal_event(eng, sig) ==
    IF sig.signal = BUY /\ eng.position = None THEN "open"
    ELSE IF sig.signal = SELL /\ eng.position # None THEN "signal"
    ELSE "none"

\* BacktestEngine.run, lines 279-286 and 308-315: the equity point of a bar
batch_equity_point(eng, timestamp, close_price) ==
    [timestamp |-> timestamp,
     equity |-> calculate_equity(eng, close_price),
     capital |-> eng.capital,
     price |-> close_price,
     position |-> IF eng.position = None THEN None ELSE [side |-> eng.position.side]]

\* the stopped-out branch continuing without its equity point
batch_record_equity_unless_stopped(curve, stopped_out, eng, timestamp, close_price) ==
    IF stopped_out THEN curve
    ELSE Append(curve, batch_equity_point(eng, timestamp, close_price))

\* BacktestEngine.run, lines 277-286 and 307-315: every bar appends one
\* equity point, in the stopped-out branch as in the signal branch
batch_record_equity(curve, stopped_out, eng, timestamp, close_price) ==
    Append(curve, batch_equity_point(eng, timestamp, close_price))

Eng == [capital |-> capital, position |-> position, trades |-> trades]

\* one iteration of the loop of BacktestEngine.run (lines 250-319): rc is
\* the outcome of the risk check, e3 the engine after the bar
BatchStep ==
    /\ runner = "batch"
    /\ pc = "loop"
    /\ i < N
    /\ \E bar \in Bars, sig \in Signals :
       \E rc \in {IF position # None
                  THEN batch_risk_check(cfg, Eng, timestamp_of(i), bar)
                  ELSE [eng |-> Eng, stopped_out |-> FALSE, event |-> "none"]} :
       \E e3 \in {IF batch_skip_signal(rc.stopped_out) THEN rc.eng
                  ELSE batch_process_signal(cfg, rc.eng, sig, timestamp_of(i),
                                            bar.close)} :
            /\ capital' = e3.capital
            /\ position' = e3.position
            /\ trades' = e3.trades
            /\ equity_curve' = batch_record_equity(equity_curve,
                                   batch_skip_signal(rc.stopped_out), e3,
                                   timestamp_of(i), bar.close)
            /\ analyze_calls' = IF batch_skip_signal(rc.stopped_out)
                                THEN analyze_calls ELSE Append(analyze_calls, i)
            /\ only_hold' = IF batch_skip_signal(rc.stopped_out)
                            THEN only_hold ELSE only_hold /\ sig.signal = HOLD
            /\ event' = [branch |-> IF rc.stopped_out THEN rc.event
                                    ELSE signal_event(rc.eng, sig),
                         signal |-> IF batch_skip_signal(rc.stopped_out)
                                    THEN "none" ELSE sig.signal,
                         position_before |-> position]
            /\ row' = [timestamp |-> timestamp_of(i), low |-> bar.low,
                       close |-> bar.close, high |-> bar.high]
            /\ i' = i + 1
    /\ UNCHANGED <<runner, simVars, apiVars, supVars, rerunVars, cfg, N, pc, signals_log, twin>>
    /\ UNCHANGED liveVars

\* the run returning with the position of the last bar still open
batch_close_at_end_skipped(c, eng, last) == eng

\* BacktestEngine.run, lines 321-326: a position still open after the loop
\* is closed at the last row's timestamp and close
batch_close_at_end(c, eng, last) ==
    IF eng.position # None
    THEN close_position(c, eng, last.timestamp, last.close)
    ELSE eng

\* BacktestEngine.run after the loop (lines 321-347)
BatchFinish ==
    /\ runner = "batch"
    /\ pc = "loop"
    /\ i = N
    /\ \E e \in {batch_close_at_end(cfg, Eng, row)} :
           /\ capital' = e.capital
           /\ position' = e.position
           /\ trades' = e.trades
           /\ event' = [branch |-> IF position # None THEN "end_of_data" ELSE "none",
                        signal |-> "none",
                        position_before |-> position]
    /\ pc' = "done"
    /\ UNCHANGED <<runner, simVars, apiVars, supVars, rerunVars, cfg, N, i, equity_curve, signals_log, analyze_calls,
                   only_hold, twin, row>>
    /\ UNCHANGED liveVars

\* ------------------------------------------------------------------------
\* PaperTradingValidator
\* ------------------------------------------------------------------------

\* _close crediting the balance with the gross pnl
validator_close_gross(c, pos, ts, exit_price, balance, reason) ==
    LET gross_pnl == RMul(RSub(exit_price, pos.entry_price), pos.quantity)
        exit_value == RMul(pos.quantity, exit_price)
        exit_fee == RMul(exit_value, c.fee)
        total_fee == RAdd(pos.entry_fee, exit_fee)
        net_pnl == RSub(gross_pnl, total_fee)
        entry_value == RMul(pos.quantity, pos.entry_price)
        pnl_pct == IF entry_value.n # 0
                   THEN RMul(RDiv(net_pnl, entry_value), RInt(100))
                   ELSE RZero
    IN  [balance |-> RAdd(balance, gross_pnl),
         trade |-> [entry_time |-> pos.entry_time, exit_time |-> ts, side |-> "long",
                    entry_price |-> pos.entry_price, exit_price |-> exit_price,
                    quantity |-> pos.quantity, pnl |-> net_pnl,
                    pnl_percent |-> pnl_pct, fee |-> total_fee,
                    exit_reason |-> reason]]

\* PaperTradingValidator._close: returns (balance, trade)
validator_close(c, pos, ts, exit_price, balance, reason) ==
    LET gross_pnl == RMul(RSub(exit_price, pos.entry_price), pos.quantity)
        exit_value == RMul(pos.quantity, exit_price)
        exit_fee == RMul(exit_value, c.fee)
        total_fee == RAdd(pos.entry_fee, exit_fee)
        net_pnl == RSub(gross_pnl, total_fee)
        entry_value == RMul(pos.quantity, pos.entry_price)
        pnl_pct == IF entry_value.n # 0
                   THEN RMul(RDiv(net_pnl, entry_value), RInt(100))
                   ELSE RZero
    IN  [balance |-> RAdd(balance, net_pnl),
         trade |-> [entry_time |-> pos.entry_time, exit_time |-> ts, side |-> "long",
                    entry_price |-> pos.entry_price, exit_price |-> exit_price,
                    quantity |-> pos.quantity, pnl |-> net_pnl,
                    pnl_percent |-> pnl_pct, fee |-> total_fee,
                    exit_reason |-> reason]]

\* balance, trade = self._close(...); trades.append(trade); position = None
validator_book(eng, r) ==
    [capital |-> r.balance, position |-> None, trades |-> Append(eng.trades, r.trade)]

\* a close as run() performs it: _close, trades.append, position = None
validator_close_position(c, eng, ts, exit_price, reason) ==
    validator_book(eng, validator_close(c, eng.position, ts, exit_price, eng.capital,
                                        reason))

\* the validator's risk check exiting at the level itself, without slippage
validator_risk_check_at_level(c, eng, ts, bar) ==
    IF Truthy(eng.position.stop_loss) /\ RLe(bar.low, eng.position.stop_loss)
    THEN [eng |-> validator_close_position(c, eng, ts, eng.position.stop_loss,
                                           "stop_loss"),
          stopped_out |-> TRUE, event |-> "stop_loss"]
    ELSE IF Truthy(eng.position.take_profit) /\ RLe(eng.position.take_profit, bar.high)
    THEN [eng |-> validator_close_position(c, eng, ts, eng.position.take_profit,
                                           "take_profit"),
          stopped_out |-> TRUE, event |-> "take_profit"]
    ELSE [eng |-> eng, stopped_out |-> FALSE, event |-> "none"]

\* PaperTradingValidator.run, lines 113-129: stop loss, then (only when not
\* stopped) take profit
validator_risk_check(c, eng, ts, bar) ==
    IF Truthy(eng.position.stop_loss) /\ RLe(bar.low, eng.position.stop_loss)
    THEN [eng |-> validator_close_position(c, eng, ts,
                      RMul(eng.position.stop_loss, RSub(ROne, c.slippage)),
                      "stop_loss"),
          stopped_out |-> TRUE, event |-> "stop_loss"]
    ELSE IF Truthy(eng.position.take_profit) /\ RLe(eng.position.take_profit, bar.high)
    THEN [eng |-> validator_close_position(c, eng, ts,
                      RMul(eng.position.take_profit, RSub(ROne, c.slippage)),
                      "take_profit"),
          stopped_out |-> TRUE, event |-> "take_profit"]
    ELSE [eng |-> eng, stopped_out |-> FALSE, event |-> "none"]

\* PaperTradingValidator.run, lines 131-136: a stopped bar logs its equity
\* and continues with the next bar
validator_skip_signal(stopped) == stopped

\* PaperTradingValidator.run, lines 147-165: act on the strategy's signal
validator_process_signal(c, eng, sig, ts, close) ==
    IF sig.signal = BUY /\ eng.position = None
    THEN LET exec_price == RMul(close, RAdd(ROne, c.slippage))
             trade_cap == RMul(eng.capital, c.position_size)
             fee == RMul(trade_cap, c.fee)
             qty == RDiv(RSub(trade_cap, fee), exec_price)
         IN  [eng EXCEPT !.position =
                 [entry_time |-> ts, entry_price |-> exec_price, quantity |-> qty,
                  entry_fee |-> fee, stop_loss |-> sig.stop_loss,
                  take_profit |-> sig.take_profit]]
    ELSE IF sig.signal = SELL /\ eng.position # None
         THEN validator_close_position(c, eng, ts,
                   RMul(close, RSub(ROne, c.slippage)), "signal")
         ELSE eng

\* PaperTradingValidator.run, lines 132-133 and 167-173: the equity point
validator_equity_point(eng, ts, close) ==
    [timestamp |-> ts,
     equity |-> IF eng.position # None
                THEN RAdd(eng.capital,
                          RMul(RSub(close, eng.position.entry_price),
                               eng.position.quantity))
                ELSE eng.capital]

\* PaperTradingValidator.run, lines 131-133 and 167-173: every bar appends
\* one equity point, in the stopped branch as in the signal branch
validator_record_equity(curve, stopped, eng, ts, close) ==
    Append(curve, validator_equity_point(eng, ts, close))

\* one iteration of the loop of PaperTradingValidator.run (lines 106-176):
\* rc is the outcome of the risk check, e3 the state after the bar
ValidatorStep ==
    /\ runner = "validation"
    /\ pc = "loop"
    /\ i < N
    /\ \E bar \in Bars, sig \in Signals :
       \E rc \in {IF position # None
                  THEN validator_risk_check(cfg, Eng, timestamp_of(i), bar)
                  ELSE [eng |-> Eng, stopped_out |-> FALSE, event |-> "none"]} :
       \E e3 \in {IF validator_skip_signal(rc.stopped_out) THEN rc.eng
                  ELSE validator_process_signal(cfg, rc.eng, sig, timestamp_of(i),
                                                bar.close)} :
            /\ capital' = e3.capital
            /\ position' = e3.position
            /\ trades' = e3.trades
            /\ equity_curve' = validator_record_equity(equity_curve,
                                   validator_skip_signal(rc.stopped_out), e3,
                                   timestamp_of(i), bar.close)
            /\ analyze_calls' = IF validator_skip_signal(rc.stopped_out)
                                THEN analyze_calls ELSE Append(analyze_calls, i)
            /\ only_hold' = IF validator_skip_signal(rc.stopped_out)
                            THEN only_hold ELSE only_hold /\ sig.signal = HOLD
            /\ signals_log' = IF validator_skip_signal(rc.stopped_out)
                              THEN signals_log
                              ELSE Append(signals_log,
                                     [index |-> i, timestamp |-> timestamp_of(i),
                                      signal |-> sig.signal])
            /\ event' = [branch |-> IF rc.stopped_out THEN rc.event
                                    ELSE signal_event(rc.eng, sig),
                         signal |-> IF validator_skip_signal(rc.stopped_out)
                                    THEN "none" ELSE sig.signal,
                         position_before |-> position]
            /\ row' = [timestamp |-> timestamp_of(i), low |-> bar.low,
                       close |-> bar.close, high |-> bar.high]
            /\ i' = i + 1
    /\ UNCHANGED <<runner, simVars, apiVars, supVars, rerunVars, cfg, N, pc, twin>>
    /\ UNCHANGED liveVars

\* PaperTradingValidator.run after the loop (lines 178-197)
ValidatorFinish ==
    /\ runner = "validation"
    /\ pc = "loop"
    /\ i = N
    /\ \E e \in {IF position # None
                 THEN validator_close_position(cfg, Eng, row.timestamp,
                           RMul(row.close, RSub(ROne, cfg.slippage)), "end_of_data")
                 ELSE Eng} :
           /\ capital' = e.capital
           /\ position' = e.position
           /\ trades' = e.trades
           /\ event' = [branch |-> IF position # None THEN "end_of_data" ELSE "none",
                        signal |-> "none",
                        position_before |-> position]
    /\ pc' = "done"
    /\ UNCHANGED <<runner, simVars, apiVars, supVars, rerunVars, cfg, N, i, equity_curve, signals_log, analyze_calls,
                   only_hold, twin, row>>
    /\ UNCHANGED liveVars

\* ------------------------------------------------------------------------
\* LiveTradingEngine
\* ------------------------------------------------------------------------

\* the engine's mutable state: positions, trade_history, paper_balances
LiveEng == [positions |-> positions, trade_history |-> trade_history,
            paper_balances |-> paper_balances]

\* LiveTradingEngine.has_position
has_position(L, symbol) == symbol \in DOMAIN L.positions

\* LiveTradingEngine.get_position
get_position(L, symbol) ==
    IF symbol \in DOMAIN L.positions THEN L.positions[symbol] ELSE None

\* dict.get(currency, PaperBalance(currency, 0)).free
paper_free(L, currency) ==
    IF currency \in DOMAIN L.paper_balances
    THEN L.paper_balances[currency].free
    ELSE RZero

\* paper_balances[currency].free += delta, creating the entry when missing
paper_credit(balances, currency, delta) ==
    IF currency \in DOMAIN balances
    THEN [balances EXCEPT ![currency].free = RAdd(@, delta)]
    ELSE balances @@ (currency :> [free |-> delta, used |-> RZero])

\* LiveTradingEngine.get_balance; exch_balance is what the exchange reports
\* (0.0 when the query fails)
get_balance(L, m, currency, exch_balance) ==
    IF m = "paper" THEN paper_free(L, currency) ELSE exch_balance

\* symbol.split('/')
base_of(symbol) == "BTC"

quote_of(symbol) == "USDT"

\* the simulated fill of _execute_order in PAPER mode (lines 193-194)
paper_fill(current_price, side, quantity) ==
    LET exec_price == RMul(current_price,
                           IF side = "buy" THEN Rat(1001, 1000) ELSE Rat(999, 1000))
        fee == RMul(RMul(quantity, exec_price), Rat(1, 1000))
    IN  [price |-> exec_price, fee |-> fee]

\* the PAPER fill of a buy settled without the balance check
paper_settle_unchecked(L, symbol, side, quantity, f) ==
    IF side = "buy"
    THEN [L |-> [L EXCEPT !.paper_balances =
                    paper_credit(
                      paper_credit(@, quote_of(symbol),
                                   RNeg(RAdd(RMul(quantity, f.price), f.fee))),
                      base_of(symbol), quantity)],
          result |-> [status |-> "filled", price |-> f.price, fee |-> f.fee]]
    ELSE IF RSub(paper_free(L, base_of(symbol)), quantity).n < 0
         THEN [L |-> L, result |-> None]
         ELSE [L |-> [L EXCEPT !.paper_balances =
                         paper_credit(
                           paper_credit(@, base_of(symbol), RNeg(quantity)),
                           quote_of(symbol),
                           RSub(RMul(quantity, f.price), f.fee))],
               result |-> [status |-> "filled", price |-> f.price, fee |-> f.fee]]

\* the PAPER fill of a buy that debits the quote currency and leaves the
\* base currency as it was
paper_settle_base_not_credited(L, symbol, side, quantity, f) ==
    IF side = "buy"
    THEN LET cost == RAdd(RMul(quantity, f.price), f.fee)
         IN  IF RSub(paper_free(L, quote_of(symbol)), cost).n < 0
             THEN [L |-> L, result |-> None]
             ELSE [L |-> [L EXCEPT !.paper_balances =
                             paper_credit(@, quote_of(symbol), RNeg(cost))],
                   result |-> [status |-> "filled", price |-> f.price, fee |-> f.fee]]
    ELSE IF RSub(paper_free(L, base_of(symbol)), quantity).n < 0
         THEN [L |-> L, result |-> None]
         ELSE [L |-> [L EXCEPT !.paper_balances =
                         paper_credit(
                           paper_credit(@, base_of(symbol), RNeg(quantity)),
                           quote_of(symbol),
                           RSub(RMul(quantity, f.price), f.fee))],
               result |-> [status |-> "filled", price |-> f.price, fee |-> f.fee]]

\* _execute_order in PAPER mode, lines 196-228: the balance check and the
\* balance updates of a fill f = [price, fee]
paper_settle(L, symbol, side, quantity, f) ==
    IF side = "buy"
    THEN LET cost == RAdd(RMul(quantity, f.price), f.fee)
         IN  IF RSub(paper_free(L, quote_of(symbol)), cost).n < 0
             THEN [L |-> L, result |-> None]
             ELSE [L |-> [L EXCEPT !.paper_balances =
                             paper_credit(
                               paper_credit(@, quote_of(symbol), RNeg(cost)),
                               base_of(symbol), quantity)],
                   result |-> [status |-> "filled", price |-> f.price, fee |-> f.fee]]
    ELSE IF RSub(paper_free(L, base_of(symbol)), quantity).n < 0
         THEN [L |-> L, result |-> None]
         ELSE [L |-> [L EXCEPT !.paper_balances =
                         paper_credit(
                           paper_credit(@, base_of(symbol), RNeg(quantity)),
                           quote_of(symbol),
                           RSub(RMul(quantity, f.price), f.fee))],
               result |-> [status |-> "filled", price |-> f.price, fee |-> f.fee]]

\* LiveTradingEngine._execute_order.  ext is what the exchange answers to
\* the call: in PAPER mode the ticker price (None: the fetch failed), in
\* LIVE mode the order the exchange returns (None: create_order raised).
\* The result is [L, result]; result None is a failed order.
execute_order(L, m, symbol, side, quantity, ext) ==
    IF m = "dry_run"
    THEN [L |-> L, result |-> [status |-> "dry_run", price |-> None, fee |-> RZero]]
    ELSE IF m = "paper"
    THEN IF ext = None
         THEN [L |-> L, result |-> None]
         ELSE paper_settle(L, symbol, side, quantity,
                           paper_fill(ext.price, side, quantity))
    ELSE IF ext = None
         THEN [L |-> L, result |-> None]
         ELSE [L |-> L, result |-> [status |-> "closed", price |-> ext.price,
                                    fee |-> ext.fee]]

\* LiveTradingEngine.open_position, lines 273-309, on the outcome r of
\* _execute_order: the position and the trade are recorded, then the log
\* line at 304 formats the price
record_open(m, symbol, side, quantity, stop_loss, take_profit, r, now) ==
    IF r.result = None
    THEN [L |-> r.L, ok |-> FALSE, raised |-> FALSE]
    ELSE [L |-> [r.L EXCEPT
                   !.positions =
                       (symbol :> [symbol |-> symbol, side |-> side,
                                   entry_price |-> r.result.price,
                                   quantity |-> quantity, entry_time |-> now,
                                   stop_loss |-> stop_loss,
                                   take_profit |-> take_profit]) @@ @,
                   !.trade_history =
                       Append(@, [timestamp |-> now, symbol |-> symbol,
                                  side |-> IF side = "long" THEN "buy" ELSE "sell",
                                  order_type |-> "market", quantity |-> quantity,
                                  price |-> r.result.price, fee |-> r.result.fee,
                                  pnl |-> None, mode |-> m])],
          ok |-> r.result.price # None,
          raised |-> r.result.price = None]

\* LiveTradingEngine.open_position.  The result is [L, ok, raised]: raised
\* is an exception leaving the method (formatting a None price in the log
\* line at 304, after the position and the trade were recorded).
live_open_position(L, m, symbol, side, quantity, stop_loss, take_profit, ext, now) ==
    IF has_position(L, symbol)
    THEN [L |-> L, ok |-> FALSE, raised |-> FALSE]
    ELSE record_open(m, symbol, side, quantity, stop_loss, take_profit,
                     execute_order(L, m, symbol,
                                   IF side = "long" THEN "buy" ELSE "sell",
                                   quantity, ext),
                     now)

\* the pnl LiveTradingEngine.close_position computes (lines 338-342)
live_pnl(pos, exit_price, fee) ==
    IF pos.side = "long"
    THEN RSub(RMul(RSub(exit_price, pos.entry_price), pos.quantity), fee)
    ELSE RSub(RMul(RSub(pos.entry_price, exit_price), pos.quantity), fee)

\* close_position recording the closing trade and leaving the position listed
record_close_position_kept(m, symbol, pos, r, now) ==
    IF r.result = None
    THEN [L |-> r.L, ok |-> FALSE, raised |-> FALSE]
    ELSE IF r.result.price = None \/ pos.entry_price = None
    THEN [L |-> r.L, ok |-> FALSE, raised |-> TRUE]
    ELSE [L |-> [r.L EXCEPT
                   !.trade_history =
                       Append(@, [timestamp |-> now, symbol |-> symbol,
                                  side |-> IF pos.side = "long" THEN "sell" ELSE "buy",
                                  order_type |-> "market", quantity |-> pos.quantity,
                                  price |-> r.result.price, fee |-> r.result.fee,
                                  pnl |-> live_pnl(pos, r.result.price, r.result.fee),
                                  mode |-> m])],
          ok |-> TRUE,
          raised |-> FALSE]

\* LiveTradingEngine.close_position, lines 332-365, on the outcome r of
\* _execute_order
record_close(m, symbol, pos, r, now) ==
    IF r.result = None
    THEN [L |-> r.L, ok |-> FALSE, raised |-> FALSE]
    ELSE IF r.result.price = None \/ pos.entry_price = None
    THEN [L |-> r.L, ok |-> FALSE, raised |-> TRUE]
    ELSE [L |-> [r.L EXCEPT
                   !.trade_history =
                       Append(@, [timestamp |-> now, symbol |-> symbol,
                                  side |-> IF pos.side = "long" THEN "sell" ELSE "buy",
                                  order_type |-> "market", quantity |-> pos.quantity,
                                  price |-> r.result.price, fee |-> r.result.fee,
                                  pnl |-> live_pnl(pos, r.result.price, r.result.fee),
                                  mode |-> m]),
                   !.positions = [k \in (DOMAIN @) \ {symbol} |-> @[k]]],
          ok |-> TRUE,
          raised |-> FALSE]

\* LiveTradingEngine.close_position.  The result is [L, ok, raised]: ok
\* FALSE is the None result; raised is the TypeError of computing a pnl
\* from a None price (line 340), before anything was recorded.
live_close_position(L, m, symbol, reason, ext, now) ==
    IF get_position(L, symbol) = None
    THEN [L |-> L, ok |-> FALSE, raised |-> FALSE]
    ELSE record_close(m, symbol, get_position(L, symbol),
                      execute_order(L, m, symbol,
                                    IF get_position(L, symbol).side = "long"
                                    THEN "sell" ELSE "buy",
                                    get_position(L, symbol).quantity, ext),
                      now)

\* what fetch_ohlcv can give an iteration: an exception, no candles, or
\* candles whose last close is a price
CandleOutcomes ==
    {[kind |-> "error", close |-> None], [kind |-> "empty", close |-> None]}
    \cup [kind : {"ok"}, close : LivePrices]

\* what the exchange answers to one _execute_order call
ExtOutcomes(m) ==
    IF m = "dry_run" THEN {None}
    ELSE IF m = "paper" THEN {None} \cup [price : LivePrices]
    ELSE {None} \cup [price : LivePrices, fee : ExchangeFees]

\* what an iteration keeps of an open_position / close_position call: the
\* engine after it, whether it raised, and the call with its outcome
call_outcome(r, op, reason, ext) ==
    [L |-> r.L, raised |-> r.raised,
     calls |-> <<[op |-> op, reason |-> reason, ext |-> ext, ok |-> r.ok]>>]

\* an iteration step that makes no call
no_call(L) == [L |-> L, raised |-> FALSE, calls |-> <<>>]

\* run_strategy, lines 443-445: the quantity of a Buy
buy_quantity(L, m, symbol, psize, current_price, exch_balance) ==
    RDiv(RMul(get_balance(L, m, quote_of(symbol), exch_balance), psize), current_price)

\* run_strategy, lines 441-455: act on the strategy's signal.  The result
\* is [L, raised, calls]; calls lists the open/close calls made, in order.
live_process_signal(L, m, symbol, psize, sig, current_price, has_pos, exch_balance, ext, now) ==
    IF sig.signal = BUY /\ ~has_pos
    THEN IF buy_quantity(L, m, symbol, psize, current_price, exch_balance).n > 0
         THEN call_outcome(
                  live_open_position(L, m, symbol, "long",
                      buy_quantity(L, m, symbol, psize, current_price, exch_balance),
                      sig.stop_loss, sig.take_profit, ext, now),
                  "open_position", "signal", ext)
         ELSE no_call(L)
    ELSE IF sig.signal = SELL /\ has_pos
         THEN call_outcome(live_close_position(L, m, symbol, "signal", ext, now),
                           "close_position", "signal", ext)
         ELSE no_call(L)

\* run_strategy, lines 457-466: stop loss / take profit on the last close
live_risk_check(L, m, symbol, current_price, has_pos, ext, now) ==
    IF has_pos /\ get_position(L, symbol) # None
    THEN IF /\ Truthy(get_position(L, symbol).stop_loss)
            /\ RLe(current_price, get_position(L, symbol).stop_loss)
         THEN call_outcome(live_close_position(L, m, symbol, "stop_loss", ext, now),
                           "close_position", "stop_loss", ext)
         ELSE IF /\ Truthy(get_position(L, symbol).take_profit)
                 /\ RLe(get_position(L, symbol).take_profit, current_price)
         THEN call_outcome(live_close_position(L, m, symbol, "take_profit", ext, now),
                           "close_position", "take_profit", ext)
         ELSE no_call(L)
    ELSE no_call(L)

\* the outcome of two steps of an iteration made one after the other
in_sequence(a, b) ==
    [L |-> b.L, raised |-> a.raised \/ b.raised, calls |-> a.calls \o b.calls]

\* run_strategy, lines 457-466 after the signal step a: an exception raised
\* by the signal step abandons the rest of the try block
then_risk_check(a, m, symbol, current_price, has_pos, ext, now) ==
    IF a.raised THEN a
    ELSE in_sequence(a, live_risk_check(a.L, m, symbol, current_price, has_pos,
                                        ext, now))

\* the try block of one iteration of run_strategy (lines 410-473) on
\* fetched candles: the signal first, then the risk check, both with the
\* has_pos read before the signal was acted on
live_iteration_body(L, m, symbol, psize, sig, current_price, exch_balance, ext1, ext2, now) ==
    then_risk_check(
        live_process_signal(L, m, symbol, psize, sig, current_price,
                            has_position(L, symbol), exch_balance, ext1, now),
        m, symbol, current_price, has_position(L, symbol), ext2, now)

\* the amounts of a paper buy stay within the integers the checker computes
\* with: a buy is followed only from a small enough free balance
Representable(x) ==
    /\ Abs(x.n) <= MaxAmount
    /\ x.d <= MaxAmount
    /\ Abs(x.n) * x.d <= MaxAmount

\* run_strategy, line 397: the loop is started
LiveStart ==
    /\ runner = "live"
    /\ live_pc = "idle"
    /\ running' = TRUE
    /\ live_pc' = "starting"
    /\ UNCHANGED <<mode, position_size, positions, trade_history, paper_balances,
                   stop_event, iters, live_last>>
    /\ UNCHANGED <<runner, simVars, apiVars, supVars, rerunVars, replayVars>>

\* line 398 clearing the stop event and setting _running again
LiveClearStopEvent_sets_running ==
    /\ runner = "live"
    /\ live_pc = "starting"
    /\ stop_event' = FALSE
    /\ running' = TRUE
    /\ live_pc' = "connecting"
    /\ UNCHANGED <<mode, position_size, positions, trade_history, paper_balances,
                   iters, live_last>>
    /\ UNCHANGED <<runner, simVars, apiVars, supVars, rerunVars, replayVars>>

\* run_strategy, line 398: the stop event is cleared
LiveClearStopEvent ==
    /\ runner = "live"
    /\ live_pc = "starting"
    /\ stop_event' = FALSE
    /\ live_pc' = "connecting"
    /\ UNCHANGED <<mode, position_size, positions, trade_history, paper_balances,
                   running, iters, live_last>>
    /\ UNCHANGED <<runner, simVars, apiVars, supVars, rerunVars, replayVars>>

\* run_strategy, lines 404-407: connect to the exchange, outside any try
\* block, so that an exception of connect ends run_strategy
LiveConnect ==
    /\ runner = "live"
    /\ live_pc = "connecting"
    /\ \E connected \in BOOLEAN :
         live_pc' = IF connected THEN "loop" ELSE "failed"
    /\ UNCHANGED <<mode, position_size, positions, trade_history, paper_balances,
                   running, stop_event, iters, live_last>>
    /\ UNCHANGED <<runner, simVars, apiVars, supVars, rerunVars, replayVars>>

\* one iteration of the while loop of run_strategy (lines 409-473).  stop()
\* is called from another thread (server.py, line 504) and may arrive while
\* the iteration is in progress: the iteration reads neither _running nor
\* the stop event, so it runs to its end with the request recorded.
LiveIteration ==
    /\ runner = "live"
    /\ live_pc = "loop"
    /\ running
    /\ iters < MaxIters
    /\ \E candles \in CandleOutcomes, sig \in Signals, exch_balance \in ExchBalances,
          ext1 \in ExtOutcomes(mode), ext2 \in ExtOutcomes(mode) :
        /\ (mode = "paper" /\ sig.signal = BUY /\ ~has_position(LiveEng, Symbol))
              => Representable(paper_free(LiveEng, quote_of(Symbol)))
        /\ IF candles.kind = "ok"
           THEN \E r \in {live_iteration_body(LiveEng, mode, Symbol, position_size,
                                               sig, candles.close, exch_balance,
                                               ext1, ext2, iters + 1)} :
                    /\ positions' = r.L.positions
                    /\ trade_history' = r.L.trade_history
                    /\ paper_balances' = r.L.paper_balances
                    /\ live_last' = [fetched |-> "ok",
                                     position_at_start |-> get_position(LiveEng, Symbol),
                                     current_price |-> candles.close,
                                     signal |-> sig.signal,
                                     calls |-> r.calls,
                                     raised |-> r.raised]
                    /\ live_pc' = "waiting"
           ELSE /\ UNCHANGED <<positions, trade_history, paper_balances>>
                /\ live_last' = [fetched |-> candles.kind,
                                 position_at_start |-> get_position(LiveEng, Symbol),
                                 current_price |-> None,
                                 signal |-> "none",
                                 calls |-> <<>>,
                                 raised |-> candles.kind = "error"]
                /\ live_pc' = IF candles.kind = "empty" THEN "sleeping" ELSE "waiting"
    /\ iters' = iters + 1
    /\ \E stop_requested \in BOOLEAN :
         /\ running' = (running /\ ~stop_requested)
         /\ stop_event' = (stop_event \/ stop_requested)
    /\ UNCHANGED <<mode, position_size>>
    /\ UNCHANGED <<runner, simVars, apiVars, supVars, rerunVars, replayVars>>

\* the while condition is false: the loop ends (line 485)
LiveLoopExit ==
    /\ runner = "live"
    /\ live_pc = "loop"
    /\ ~running
    /\ live_pc' = "stopped"
    /\ UNCHANGED <<mode, position_size, positions, trade_history, paper_balances,
                   running, stop_event, iters, live_last>>
    /\ UNCHANGED <<runner, simVars, apiVars, supVars, rerunVars, replayVars>>

\* asyncio.sleep(check_interval) after an empty fetch, then continue (418-419)
LiveSleepDone ==
    /\ runner = "live"
    /\ live_pc = "sleeping"
    /\ live_pc' = "loop"
    /\ UNCHANGED <<mode, position_size, positions, trade_history, paper_balances,
                   running, stop_event, iters, live_last>>
    /\ UNCHANGED <<runner, simVars, apiVars, supVars, rerunVars, replayVars>>

\* wait_for(stop_event.wait(), timeout): the timeout passes (482-483)
LiveWaitTimeout ==
    /\ runner = "live"
    /\ live_pc = "waiting"
    /\ ~stop_event
    /\ live_pc' = "loop"
    /\ UNCHANGED <<mode, position_size, positions, trade_history, paper_balances,
                   running, stop_event, iters, live_last>>
    /\ UNCHANGED <<runner, simVars, apiVars, supVars, rerunVars, replayVars>>

\* wait_for(stop_event.wait(), timeout): the event is set, break (477-481)
LiveWaitStopped ==
    /\ runner = "live"
    /\ live_pc = "waiting"
    /\ stop_event
    /\ live_pc' = "stopped"
    /\ UNCHANGED <<mode, position_size, positions, trade_history, paper_balances,
                   running, stop_event, iters, live_last>>
    /\ UNCHANGED <<runner, simVars, apiVars, supVars, rerunVars, replayVars>>

\* stop setting the event and leaving _running as it is
LiveStop_keeps_running ==
    /\ runner = "live"
    /\ running
    /\ live_pc \in {"starting", "connecting", "loop", "waiting", "sleeping"}
    /\ stop_event' = TRUE
    /\ UNCHANGED <<mode, position_size, positions, trade_history, paper_balances,
                   running, live_pc, iters, live_last>>
    /\ UNCHANGED <<runner, simVars, apiVars, supVars, rerunVars, replayVars>>

\* LiveTradingEngine.stop (lines 487-491), requested on a running engine
LiveStop ==
    /\ runner = "live"
    /\ running
    /\ live_pc \in {"starting", "connecting", "loop", "waiting", "sleeping"}
    /\ running' = FALSE
    /\ stop_event' = TRUE
    /\ UNCHANGED <<mode, position_size, positions, trade_history, paper_balances,
                   live_pc, iters, live_last>>
    /\ UNCHANGED <<runner, simVars, apiVars, supVars, rerunVars, replayVars>>

\* ------------------------------------------------------------------------
\* Specification of the replay runners
\* ------------------------------------------------------------------------

\* the replay variables of a run that is not a replay
ReplayIdle ==
    /\ cfg = None
    /\ N = 0
    /\ i = 0
    /\ pc = "none"
    /\ capital = RZero
    /\ position = None
    /\ trades = <<>>
    /\ equity_curve = <<>>
    /\ signals_log = <<>>
    /\ analyze_calls = <<>>
    /\ only_hold = TRUE
    /\ twin = None
    /\ row = None
    /\ event = [branch |-> "none", signal |-> "none", position_before |-> None]

\* the live variables of a run that is not a live session
LiveIdle ==
    /\ mode = "none"
    /\ position_size = RZero
    /\ positions = <<>>
    /\ trade_history = <<>>
    /\ paper_balances = <<>>
    /\ running = FALSE
    /\ stop_event = FALSE
    /\ live_pc = "none"
    /\ iters = 0
    /\ live_last = None

\* the simulator variables of a run that uses no TradeSimulator
SimIdle ==
    /\ order_objects = <<>>
    /\ orders = <<>>
    /\ order_counter = 0
    /\ sim_last = None

\* the API variables of a run that is not an API session
ApiIdle ==
    /\ engines = <<>>
    /\ live_engine = None
    /\ api_last = None

\* the supervisor variables of a run that has no supervisor
SupIdle ==
    /\ sup_pc = "none"
    /\ clock = 0
    /\ sup_running = FALSE
    /\ shutdown_requested = FALSE
    /\ process = None
    /\ restart_times = <<>>
    /\ current_delay = 0
    /\ started = <<>>

\* no engine whose results are followed
RerunIdle ==
    /\ results = <<>>
    /\ lists = <<>>
    /\ trades_list = 0

\* BacktestEngine.__init__ + _reset / the locals of PaperTradingValidator.run
InitReplay ==
    /\ runner \in {"batch", "validation"}
    /\ \E args \in RunnerArgs : cfg = construct(args)
    /\ N \in (cfg.min_history + 1)..MaxBars
    /\ i = cfg.min_history
    /\ pc = "loop"
    /\ capital = cfg.initial_capital
    /\ position = None
    /\ trades = <<>>
    /\ equity_curve = <<>>
    /\ signals_log = <<>>
    /\ analyze_calls = <<>>
    /\ only_hold = TRUE
    /\ twin = None
    /\ row = None
    /\ event = [branch |-> "none", signal |-> "none", position_before |-> None]
    /\ LiveIdle
    /\ SimIdle
    /\ ApiIdle
    /\ SupIdle
    /\ RerunIdle

\* LiveTradingEngine.__init__, then set_paper_balance(quote) in PAPER mode
\* (run_live_trading, lines 580-584)
InitLive ==
    /\ runner = "live"
    /\ mode \in {"live", "paper", "dry_run"}
    /\ position_size \in LivePositionSizes
    /\ positions = <<>>
    /\ trade_history = <<>>
    /\ paper_balances = IF mode = "paper"
                        THEN (quote_of(Symbol) :> [free |-> InitialBalance, used |-> RZero])
                        ELSE <<>>
    /\ running = FALSE
    /\ stop_event = FALSE
    /\ live_pc = "idle"
    /\ iters = 0
    /\ live_last = None
    /\ ReplayIdle
    /\ SimIdle
    /\ ApiIdle
    /\ SupIdle
    /\ RerunIdle

Init == InitReplay \/ InitLive

Next ==
    \/ BatchStep
    \/ BatchFinish
    \/ ValidatorStep
    \/ ValidatorFinish
    \/ LiveStart
    \/ LiveClearStopEvent
    \/ LiveConnect
    \/ LiveIteration
    \/ LiveLoopExit
    \/ LiveSleepDone
    \/ LiveWaitTimeout
    \/ LiveWaitStopped
    \/ LiveStop

Spec == Init /\ [][Next]_vars

\* run_strategy is a coroutine that its event loop keeps running: each of its
\* steps that is possible is eventually taken, and a sleep or a wait with a
\* timeout ends.  Nothing obliges anyone to start the loop or to call stop.
LiveFairness ==
    /\ WF_vars(LiveClearStopEvent)
    /\ WF_vars(LiveConnect)
    /\ WF_vars(LiveIteration)
    /\ WF_vars(LiveLoopExit)
    /\ WF_vars(LiveSleepDone)
    /\ WF_vars(LiveWaitTimeout)
    /\ WF_vars(LiveWaitStopped)

LiveSpec == Init /\ [][Next]_vars /\ LiveFairness

\* ------------------------------------------------------------------------
\* The open / close operations called directly, in any order
\* ------------------------------------------------------------------------

\* BacktestEngine._open_position called on the engine as it is
KernelOpen ==
    /\ runner = "kernel"
    /\ i < MaxCalls
    /\ \E price \in Prices :
       \E e \in {open_position(cfg, Eng, timestamp_of(i), price, "long")} :
            /\ capital' = e.capital
            /\ position' = e.position
            /\ trades' = e.trades
            /\ row' = [timestamp |-> timestamp_of(i), low |-> price, close |-> price,
                       high |-> price]
    /\ event' = [branch |-> "open", signal |-> "none", position_before |-> position]
    /\ i' = i + 1
    /\ UNCHANGED <<runner, simVars, apiVars, supVars, rerunVars, cfg, N, pc, equity_curve, signals_log, analyze_calls,
                   only_hold, twin>>
    /\ UNCHANGED liveVars

\* BacktestEngine._close_position called on the engine as it is
KernelClose ==
    /\ runner = "kernel"
    /\ i < MaxCalls
    /\ \E price \in Prices :
       \E r \in {try_close_position(cfg, Eng, timestamp_of(i), price)} :
            /\ capital' = r.eng.capital
            /\ position' = r.eng.position
            /\ trades' = r.eng.trades
            /\ row' = [timestamp |-> timestamp_of(i), low |-> price, close |-> price,
                       high |-> price]
            /\ event' = [branch |-> IF r.raised THEN "error" ELSE "close",
                         signal |-> "none", position_before |-> position]
    /\ i' = i + 1
    /\ UNCHANGED <<runner, simVars, apiVars, supVars, rerunVars, cfg, N, pc, equity_curve, signals_log, analyze_calls,
                   only_hold, twin>>
    /\ UNCHANGED liveVars

\* what a configured notifier does with send_trade_alert; "none" is a
\* notifier that is not configured (self.telegram / self.discord is None)
NotifierOutcomes == [telegram : {"none", "sent", "raises"},
                     discord : {"none", "sent", "raises"}]

\* _notify_trade letting the notifiers' exceptions through
notify_trade_uncaught(n) ==
    [raised |-> n.telegram = "raises" \/ n.discord = "raises",
     errors_logged |-> 0]

\* LiveTradingEngine._notify_trade (lines 367-380): each notifier is called
\* in its own try block and its exception is logged
notify_trade(n) ==
    [raised |-> FALSE,
     errors_logged |-> (IF n.telegram = "raises" THEN 1 ELSE 0)
                       + (IF n.discord = "raises" THEN 1 ELSE 0)]

\* open_position, lines 304-309, and close_position, lines 360-365, after
\* the records r = [L, ok, raised] were made: the notification, then the
\* return of the result.  A call that failed or raised before does not
\* reach the notification.
with_notification(r, n) ==
    IF r.ok
    THEN [L |-> r.L, ok |-> ~notify_trade(n).raised, raised |-> notify_trade(n).raised]
    ELSE r

\* the notifiers a call reached (None: it ended before the notification)
notified(r, n) == IF r.ok THEN n ELSE None

\* what a direct call leaves in live_last: the position it began with and
\* the call with its outcome
direct_call(L, r) ==
    [fetched |-> "none", position_at_start |-> get_position(L, Symbol),
     current_price |-> None, signal |-> "none", calls |-> r.calls,
     raised |-> r.raised]

\* LiveTradingEngine.open_position called on the engine as it is
EngineOpen ==
    /\ runner = "engine"
    /\ iters < MaxCalls
    /\ \E quantity \in Quantities, ext \in ExtOutcomes(mode), n \in NotifierOutcomes :
       \E made \in {live_open_position(LiveEng, mode, Symbol, "long", quantity,
                                        None, None, ext, iters + 1)} :
       \E r \in {call_outcome(with_notification(made, n),
                               "open_position", "direct", ext)} :
            /\ positions' = r.L.positions
            /\ trade_history' = r.L.trade_history
            /\ paper_balances' = r.L.paper_balances
            /\ live_last' = direct_call(LiveEng, r) @@ [notified |-> notified(made, n)]
    /\ iters' = iters + 1
    /\ UNCHANGED <<mode, position_size, running, stop_event, live_pc>>
    /\ UNCHANGED <<runner, simVars, apiVars, supVars, rerunVars, replayVars>>

\* LiveTradingEngine.close_position called on the engine as it is
EngineClose ==
    /\ runner = "engine"
    /\ iters < MaxCalls
    /\ \E ext \in ExtOutcomes(mode), n \in NotifierOutcomes :
       \E made \in {live_close_position(LiveEng, mode, Symbol, "signal", ext,
                                         iters + 1)} :
       \E r \in {call_outcome(with_notification(made, n),
                               "close_position", "signal", ext)} :
            /\ positions' = r.L.positions
            /\ trade_history' = r.L.trade_history
            /\ paper_balances' = r.L.paper_balances
            /\ live_last' = direct_call(LiveEng, r) @@ [notified |-> notified(made, n)]
    /\ iters' = iters + 1
    /\ UNCHANGED <<mode, position_size, running, stop_event, live_pc>>
    /\ UNCHANGED <<runner, simVars, apiVars, supVars, rerunVars, replayVars>>

\* the columns validate_data requires (strategies/base.py, line 129)
RequiredColumns == {"timestamp", "open", "high", "low", "close", "volume"}

\* bar tables handed to run(): their columns and their number of rows
Tables == [columns : {RequiredColumns, RequiredColumns \ {"volume"}}, rows : {0, 2}]

\* BaseStrategy.validate_data (strategies/base.py 119-138): TRUE when it
\* raises ValueError, for a missing column or an empty table
validate_data_raises(df) ==
    \/ RequiredColumns \ df.columns # {}
    \/ df.rows = 0

\* BacktestEngine._reset leaving the capital of the run before
reset_capital_carried(c) ==
    [capital |-> capital, position |-> None, trades |-> <<>>,
     equity_curve |-> <<>>]

\* BacktestEngine._reset (engine.py 117-122)
reset(c) ==
    [capital |-> c.initial_capital, position |-> None, trades |-> <<>>,
     equity_curve |-> <<>>]

\* BacktestEngine.run on a table validate_data rejects (engine.py 236-239):
\* _reset runs first, then validate_data raises out of run
KernelRunRejected ==
    /\ runner = "kernel"
    /\ pc = "calls"
    /\ \E df \in Tables :
         /\ validate_data_raises(df)
         /\ N' = df.rows
    /\ \E e \in {reset(cfg)} :
         /\ capital' = e.capital
         /\ position' = e.position
         /\ trades' = e.trades
         /\ equity_curve' = e.equity_curve
    /\ event' = [branch |-> "invalid_input", signal |-> "none",
                 position_before |-> position]
    /\ pc' = "rejected"
    /\ UNCHANGED <<runner, simVars, apiVars, supVars, rerunVars, cfg, i, signals_log, analyze_calls, only_hold, twin, row>>
    /\ UNCHANGED liveVars

\* the records of a trade history that satisfy a test, as a set of indices
winning_records(th) == {k \in 1..Len(th) : th[k].pnl # None /\ th[k].pnl.n > 0}

RECURSIVE sum_pnl_or_zero(_)
\* sum(t.pnl or 0 for t in trade_history) (line 541)
sum_pnl_or_zero(th) ==
    IF th = <<>> THEN RZero
    ELSE RAdd(IF th[1].pnl = None THEN RZero ELSE th[1].pnl, sum_pnl_or_zero(Tail(th)))

\* LiveTradingEngine.get_performance_summary (lines 533-560)
get_performance_summary(L) ==
    IF L.trade_history = <<>>
    THEN [message |-> "No trades executed"]
    ELSE [total_trades |-> Len(L.trade_history),
          total_pnl |-> sum_pnl_or_zero(L.trade_history),
          winning_trades |-> Cardinality(winning_records(L.trade_history)),
          win_rate |-> Rat(Cardinality(winning_records(L.trade_history)) * 100,
                           Len(L.trade_history)),
          open_positions |-> Cardinality(DOMAIN L.positions)]

\* get_performance_summary called on the engine as it is, after a call
EngineSummary ==
    /\ runner = "engine"
    /\ live_last # None
    /\ "summary" \notin DOMAIN live_last
    /\ live_last' = live_last @@ [summary |-> get_performance_summary(LiveEng)]
    /\ UNCHANGED <<mode, position_size, positions, trade_history, paper_balances,
                   running, stop_event, live_pc, iters>>
    /\ UNCHANGED <<runner, simVars, apiVars, supVars, rerunVars, replayVars>>

\* a BacktestEngine after __init__ and _reset, no run started
KernelInit ==
    /\ runner = "kernel"
    /\ \E args \in RunnerArgs : cfg = construct(args)
    /\ N = 0
    /\ i = 0
    /\ pc = "calls"
    /\ capital = cfg.initial_capital
    /\ position = None
    /\ trades = <<>>
    /\ equity_curve = <<>>
    /\ signals_log = <<>>
    /\ analyze_calls = <<>>
    /\ only_hold = TRUE
    /\ twin = None
    /\ row = None
    /\ event = [branch |-> "none", signal |-> "none", position_before |-> None]
    /\ LiveIdle
    /\ SimIdle
    /\ ApiIdle
    /\ SupIdle
    /\ RerunIdle

\* a LiveTradingEngine after __init__ (and set_paper_balance in PAPER mode),
\* no loop started
EngineInit ==
    /\ runner = "engine"
    /\ mode \in {"live", "paper", "dry_run"}
    /\ position_size = ROne
    /\ positions = <<>>
    /\ trade_history = <<>>
    /\ paper_balances = IF mode = "paper"
                        THEN (quote_of(Symbol) :> [free |-> InitialBalance, used |-> RZero])
                        ELSE <<>>
    /\ running = FALSE
    /\ stop_event = FALSE
    /\ live_pc = "calls"
    /\ iters = 0
    /\ live_last = None
    /\ ReplayIdle
    /\ SimIdle
    /\ ApiIdle
    /\ SupIdle
    /\ RerunIdle

KernelNext ==
    \/ KernelOpen
    \/ KernelClose
    \/ KernelRunRejected
    \/ EngineSummary
    \/ EngineOpen
    \/ EngineClose

KernelSpec == (KernelInit \/ EngineInit) /\ [][KernelNext]_vars

\* ------------------------------------------------------------------------
\* open_position / close_position on the loop's thread, statement by
\* statement, with a reader on the API's thread (server.py, lines 476-487:
\* the loop runs in a thread of its own; the status, trades and balance
\* endpoints run on the server's thread and take no lock)
\* ------------------------------------------------------------------------

\* what the loop's thread holds between two statements of a call (pending)
\* and what the reader saw last (observed)
thread_state(pending, observed) == [pending |-> pending, observed |-> observed]

\* open_position, lines 266-274: the order is executed; in PAPER mode
\* _execute_order has updated the balances when it returns
ThreadOpenExecute ==
    /\ runner = "threads"
    /\ live_pc = "ready"
    /\ iters < MaxCalls
    /\ ~has_position(LiveEng, Symbol)
    /\ \E quantity \in Quantities, ext \in ExtOutcomes(mode) :
       \E r \in {execute_order(LiveEng, mode, Symbol, "buy", quantity, ext)} :
            /\ paper_balances' = r.L.paper_balances
            /\ live_pc' = IF r.result = None THEN "ready" ELSE "open_executed"
            /\ live_last' = thread_state(
                   IF r.result = None THEN None
                   ELSE [result |-> r.result, quantity |-> quantity],
                   live_last.observed)
    /\ iters' = iters + 1
    /\ UNCHANGED <<mode, position_size, positions, trade_history, running, stop_event>>
    /\ UNCHANGED <<runner, simVars, apiVars, supVars, rerunVars, replayVars>>

\* open_position, lines 276-287: the position is recorded
ThreadOpenRecordPosition ==
    /\ runner = "threads"
    /\ live_pc = "open_executed"
    /\ positions' = (Symbol :> [symbol |-> Symbol, side |-> "long",
                                entry_price |-> live_last.pending.result.price,
                                quantity |-> live_last.pending.quantity,
                                entry_time |-> iters,
                                stop_loss |-> None, take_profit |-> None])
                    @@ positions
    /\ live_pc' = "open_position_recorded"
    /\ UNCHANGED <<mode, position_size, trade_history, paper_balances, running,
                   stop_event, iters, live_last>>
    /\ UNCHANGED <<runner, simVars, apiVars, supVars, rerunVars, replayVars>>

\* open_position, lines 289-309: the trade is recorded and the call returns
ThreadOpenRecordTrade ==
    /\ runner = "threads"
    /\ live_pc = "open_position_recorded"
    /\ trade_history' = Append(trade_history,
           [timestamp |-> iters, symbol |-> Symbol, side |-> "buy",
            order_type |-> "market", quantity |-> live_last.pending.quantity,
            price |-> live_last.pending.result.price,
            fee |-> live_last.pending.result.fee, pnl |-> None, mode |-> mode])
    /\ live_pc' = "ready"
    /\ live_last' = thread_state(None, live_last.observed)
    /\ UNCHANGED <<mode, position_size, positions, paper_balances, running,
                   stop_event, iters>>
    /\ UNCHANGED <<runner, simVars, apiVars, supVars, rerunVars, replayVars>>

\* close_position, lines 324-335: the order is executed; in PAPER mode
\* _execute_order has updated the balances when it returns
ThreadCloseExecute ==
    /\ runner = "threads"
    /\ live_pc = "ready"
    /\ iters < MaxCalls
    /\ has_position(LiveEng, Symbol)
    /\ \E ext \in ExtOutcomes(mode) :
       \E r \in {execute_order(LiveEng, mode, Symbol, "sell",
                               get_position(LiveEng, Symbol).quantity, ext)} :
            /\ paper_balances' = r.L.paper_balances
            /\ live_pc' = IF r.result = None THEN "ready" ELSE "close_executed"
            /\ live_last' = thread_state(
                   IF r.result = None THEN None
                   ELSE [result |-> r.result,
                         quantity |-> get_position(LiveEng, Symbol).quantity],
                   live_last.observed)
    /\ iters' = iters + 1
    /\ UNCHANGED <<mode, position_size, positions, trade_history, running, stop_event>>
    /\ UNCHANGED <<runner, simVars, apiVars, supVars, rerunVars, replayVars>>

\* close_position, lines 337-355: the pnl is computed and the trade recorded
ThreadCloseRecordTrade ==
    /\ runner = "threads"
    /\ live_pc = "close_executed"
    /\ trade_history' = Append(trade_history,
           [timestamp |-> iters, symbol |-> Symbol, side |-> "sell",
            order_type |-> "market", quantity |-> live_last.pending.quantity,
            price |-> live_last.pending.result.price,
            fee |-> live_last.pending.result.fee,
            pnl |-> live_pnl(get_position(LiveEng, Symbol),
                             live_last.pending.result.price,
                             live_last.pending.result.fee),
            mode |-> mode])
    /\ live_pc' = "close_trade_recorded"
    /\ UNCHANGED <<mode, position_size, positions, paper_balances, running,
                   stop_event, iters, live_last>>
    /\ UNCHANGED <<runner, simVars, apiVars, supVars, rerunVars, replayVars>>

\* close_position, lines 357-365: the position is removed and the call
\* returns
ThreadCloseRemovePosition ==
    /\ runner = "threads"
    /\ live_pc = "close_trade_recorded"
    /\ positions' = [k \in (DOMAIN positions) \ {Symbol} |-> positions[k]]
    /\ live_pc' = "ready"
    /\ live_last' = thread_state(None, live_last.observed)
    /\ UNCHANGED <<mode, position_size, trade_history, paper_balances, running,
                   stop_event, iters>>
    /\ UNCHANGED <<runner, simVars, apiVars, supVars, rerunVars, replayVars>>

\* get_status (lines 493-523) and the trades and balance endpoints
\* (server.py, lines 508-563) on the server's thread: the reader sees the
\* engine as it is at that instant
ReaderGetStatus ==
    /\ runner = "threads"
    /\ live_last.observed # LiveEng
    /\ live_last' = thread_state(live_last.pending, LiveEng)
    /\ UNCHANGED <<mode, position_size, positions, trade_history, paper_balances,
                   running, stop_event, live_pc, iters>>
    /\ UNCHANGED <<runner, simVars, apiVars, supVars, rerunVars, replayVars>>

\* a LiveTradingEngine whose loop thread is running, PAPER or LIVE mode
ThreadsInit ==
    /\ runner = "threads"
    /\ mode \in {"live", "paper"}
    /\ position_size = ROne
    /\ positions = <<>>
    /\ trade_history = <<>>
    /\ paper_balances = IF mode = "paper"
                        THEN (quote_of(Symbol) :> [free |-> InitialBalance, used |-> RZero])
                        ELSE <<>>
    /\ running = TRUE
    /\ stop_event = FALSE
    /\ live_pc = "ready"
    /\ iters = 0
    /\ live_last = thread_state(None, None)
    /\ ReplayIdle
    /\ SimIdle
    /\ ApiIdle
    /\ SupIdle
    /\ RerunIdle

ThreadsNext ==
    \/ ThreadOpenExecute
    \/ ThreadOpenRecordPosition
    \/ ThreadOpenRecordTrade
    \/ ThreadCloseExecute
    \/ ThreadCloseRecordTrade
    \/ ThreadCloseRemovePosition
    \/ ReaderGetStatus

ThreadsSpec == ThreadsInit /\ [][ThreadsNext]_vars

\* ------------------------------------------------------------------------
\* A batch run and a validation run on the same table, with the same
\* strategy and the same constructor arguments (tests/test_paper_validator.py,
\* lines 45-62), bar by bar side by side
\* ------------------------------------------------------------------------

\* the validation run's balance, position and trades
TwinEng == [capital |-> twin.capital, position |-> twin.position, trades |-> twin.trades]

\* the validation run after a bar: v3 is its state after the bar
twin_after_bar(t, stopped, v3, sig, idx, ts, close) ==
    [capital |-> v3.capital, position |-> v3.position, trades |-> v3.trades,
     equity_curve |-> validator_record_equity(t.equity_curve, stopped, v3, ts, close),
     signals_log |-> IF validator_skip_signal(stopped) THEN t.signals_log
                     ELSE Append(t.signals_log,
                                 [index |-> idx, timestamp |-> ts, signal |-> sig.signal])]

\* bar i of both loops (engine.py 250-319, paper_validator.py 106-176): the
\* same row, and the same answer of analyze(df, i) for the run that asks
PairStep ==
    /\ runner = "pair"
    /\ pc = "loop"
    /\ i < N
    /\ \E bar \in Bars, sig \in Signals :
       \E rc \in {IF position # None
                  THEN batch_risk_check(cfg, Eng, timestamp_of(i), bar)
                  ELSE [eng |-> Eng, stopped_out |-> FALSE, event |-> "none"]} :
       \E e3 \in {IF batch_skip_signal(rc.stopped_out) THEN rc.eng
                  ELSE batch_process_signal(cfg, rc.eng, sig, timestamp_of(i),
                                            bar.close)} :
       \E vrc \in {IF twin.position # None
                   THEN validator_risk_check(cfg, TwinEng, timestamp_of(i), bar)
                   ELSE [eng |-> TwinEng, stopped_out |-> FALSE, event |-> "none"]} :
       \E v3 \in {IF validator_skip_signal(vrc.stopped_out) THEN vrc.eng
                  ELSE validator_process_signal(cfg, vrc.eng, sig, timestamp_of(i),
                                                bar.close)} :
            /\ capital' = e3.capital
            /\ position' = e3.position
            /\ trades' = e3.trades
            /\ equity_curve' = batch_record_equity(equity_curve,
                                   batch_skip_signal(rc.stopped_out), e3,
                                   timestamp_of(i), bar.close)
            /\ analyze_calls' = IF batch_skip_signal(rc.stopped_out)
                                THEN analyze_calls ELSE Append(analyze_calls, i)
            /\ only_hold' = IF batch_skip_signal(rc.stopped_out)
                            THEN only_hold ELSE only_hold /\ sig.signal = HOLD
            /\ twin' = twin_after_bar(twin, vrc.stopped_out, v3, sig, i,
                                      timestamp_of(i), bar.close)
            /\ event' = [branch |-> IF rc.stopped_out THEN rc.event
                                    ELSE signal_event(rc.eng, sig),
                         signal |-> IF batch_skip_signal(rc.stopped_out)
                                    THEN "none" ELSE sig.signal,
                         position_before |-> position]
            /\ row' = [timestamp |-> timestamp_of(i), low |-> bar.low,
                       close |-> bar.close, high |-> bar.high]
            /\ i' = i + 1
    /\ UNCHANGED <<runner, simVars, apiVars, supVars, rerunVars, cfg, N, pc, signals_log>>
    /\ UNCHANGED liveVars

\* the validation run after its loop (paper_validator.py 178-197)
twin_at_end(c, t, v) ==
    [t EXCEPT !.capital = v.capital, !.position = v.position, !.trades = v.trades]

\* both runs after their loops (engine.py 321-347, paper_validator.py
\* 178-197)
PairFinish ==
    /\ runner = "pair"
    /\ pc = "loop"
    /\ i = N
    /\ \E e \in {batch_close_at_end(cfg, Eng, row)} :
       \E v \in {IF twin.position # None
                 THEN validator_close_position(cfg, TwinEng, row.timestamp,
                           RMul(row.close, RSub(ROne, cfg.slippage)), "end_of_data")
                 ELSE TwinEng} :
           /\ capital' = e.capital
           /\ position' = e.position
           /\ trades' = e.trades
           /\ twin' = twin_at_end(cfg, twin, v)
           /\ event' = [branch |-> IF position # None THEN "end_of_data" ELSE "none",
                        signal |-> "none",
                        position_before |-> position]
    /\ pc' = "done"
    /\ UNCHANGED <<runner, simVars, apiVars, supVars, rerunVars, cfg, N, i, equity_curve, signals_log, analyze_calls,
                   only_hold, row>>
    /\ UNCHANGED liveVars

\* both runners constructed with the same arguments, before the first bar
PairInit ==
    /\ runner = "pair"
    /\ \E args \in RunnerArgs : cfg = construct(args)
    /\ N \in (cfg.min_history + 1)..MaxBars
    /\ i = cfg.min_history
    /\ pc = "loop"
    /\ capital = cfg.initial_capital
    /\ position = None
    /\ trades = <<>>
    /\ equity_curve = <<>>
    /\ signals_log = <<>>
    /\ analyze_calls = <<>>
    /\ only_hold = TRUE
    /\ twin = [capital |-> cfg.initial_capital, position |-> None, trades |-> <<>>,
               equity_curve |-> <<>>, signals_log |-> <<>>]
    /\ row = None
    /\ event = [branch |-> "none", signal |-> "none", position_before |-> None]
    /\ LiveIdle
    /\ SimIdle
    /\ ApiIdle
    /\ SupIdle
    /\ RerunIdle

PairNext ==
    \/ PairStep
    \/ PairFinish

PairSpec == PairInit /\ [][PairNext]_vars

\* ------------------------------------------------------------------------
\* PaperTradingValidator.compare_with_backtest on the results of two runs
\* ------------------------------------------------------------------------

\* abs() of an amount
RAbs(x) == IF x.n < 0 THEN RNeg(x) ELSE x

\* BacktestResult.total_return_pct (engine.py 55-63)
bt_total_return_pct(initial_capital, final_capital) ==
    RMul(RDiv(RSub(final_capital, initial_capital), initial_capital), RInt(100))

\* ValidationReport.total_return_pct (paper_validator.py 53-57)
pv_total_return_pct(initial_balance, final_balance) ==
    IF initial_balance.n = 0 THEN RZero
    ELSE RMul(RDiv(RSub(final_balance, initial_balance), initial_balance), RInt(100))

\* compare_with_backtest (paper_validator.py 269-279): the final-capital
\* difference, in percent of the batch run's final capital
capital_diff_pct(bt_final, pv_final) ==
    RMul(RDiv(RAbs(RSub(bt_final, pv_final)), RMax(bt_final, ROne)), RInt(100))

\* initial and final capitals of the compared results
ComparedInitials == {RInt(50), RInt(100)}

ComparedFinals == {RZero, RInt(98), RInt(100), RInt(101), RInt(102)}

\* trade counts of the compared results
MaxComparedTrades == 2

\* tolerance_pct arguments
Tolerances == {RZero, ROne, RInt(2)}

\* the fields of a BacktestResult / ValidationReport the comparison reads
ComparedResults ==
    [initial : ComparedInitials, final : ComparedFinals, num_trades : 0..MaxComparedTrades]

\* the comparison declaring a match only strictly inside the tolerance
compare_with_backtest_strict(report, backtest_result, tolerance_pct) ==
    [match |-> /\ RLt(RAbs(RSub(bt_total_return_pct(backtest_result.initial,
                                                    backtest_result.final),
                                pv_total_return_pct(report.initial, report.final))),
                      tolerance_pct)
               /\ Abs(backtest_result.num_trades - report.num_trades) < 1
               /\ RLt(capital_diff_pct(backtest_result.final, report.final),
                      tolerance_pct),
     return_diff_pct |-> RAbs(RSub(bt_total_return_pct(backtest_result.initial,
                                                       backtest_result.final),
                                   pv_total_return_pct(report.initial, report.final))),
     trades_diff |-> Abs(backtest_result.num_trades - report.num_trades),
     capital_diff_pct |-> capital_diff_pct(backtest_result.final, report.final)]

\* PaperTradingValidator.compare_with_backtest (paper_validator.py 258-298):
\* the differences and the match flag of the returned dict
compare_with_backtest(report, backtest_result, tolerance_pct) ==
    [match |-> /\ RLe(RAbs(RSub(bt_total_return_pct(backtest_result.initial,
                                                    backtest_result.final),
                                pv_total_return_pct(report.initial, report.final))),
                      tolerance_pct)
               /\ Abs(backtest_result.num_trades - report.num_trades) <= 1
               /\ RLe(capital_diff_pct(backtest_result.final, report.final),
                      tolerance_pct),
     return_diff_pct |-> RAbs(RSub(bt_total_return_pct(backtest_result.initial,
                                                       backtest_result.final),
                                   pv_total_return_pct(report.initial, report.final))),
     trades_diff |-> Abs(backtest_result.num_trades - report.num_trades),
     capital_diff_pct |-> capital_diff_pct(backtest_result.final, report.final)]

\* compare_with_backtest called on the two results and returning
Compare ==
    /\ runner = "compare"
    /\ pc = "called"
    /\ event' = [branch |-> "compare", signal |-> "none", position_before |-> None,
                 comparison |-> compare_with_backtest(twin, cfg.backtest_result,
                                                      cfg.tolerance_pct)]
    /\ pc' = "returned"
    /\ UNCHANGED <<runner, simVars, apiVars, supVars, rerunVars, cfg, N, i, capital, position, trades, equity_curve,
                   signals_log, analyze_calls, only_hold, twin, row>>
    /\ UNCHANGED liveVars

\* a validation report (twin), a batch result and a tolerance, before the
\* call
CompareInit ==
    /\ runner = "compare"
    /\ \E bt \in ComparedResults, tol \in Tolerances :
          cfg = [backtest_result |-> bt, tolerance_pct |-> tol]
    /\ twin \in ComparedResults
    /\ N = 0
    /\ i = 0
    /\ pc = "called"
    /\ capital = RZero
    /\ position = None
    /\ trades = <<>>
    /\ equity_curve = <<>>
    /\ signals_log = <<>>
    /\ analyze_calls = <<>>
    /\ only_hold = TRUE
    /\ row = None
    /\ event = [branch |-> "none", signal |-> "none", position_before |-> None]
    /\ LiveIdle
    /\ SimIdle
    /\ ApiIdle
    /\ SupIdle
    /\ RerunIdle

CompareSpec == CompareInit /\ [][Compare]_vars

\* ------------------------------------------------------------------------
\* TradeSimulator (src/backtesting/simulator.py)
\* ------------------------------------------------------------------------

\* orders one simulator constructs in a run
MaxOrders == 2

\* the arguments of the create_* methods: one symbol, both sides, one price
\* (the market price, the limit or the stop), one timestamp
OrderArgs ==
    [symbol : {"BTC/USDT"}, side : {"buy", "sell"}, price : {RInt(3)}, timestamp : {1}]

\* the order types check_pending_orders treats as stops
StopTypes == {"stop_loss", "take_profit"}

\* candle["low"], candle["high"] of the candles checked, below, around and
\* above the orders' price
Candles ==
    {[low |-> RInt(c[1]), high |-> RInt(c[2])] : c \in {<<1, 2>>, <<3, 4>>, <<4, 5>>}}

\* the decimal digits of n, most significant first
RECURSIVE decimal(_)
decimal(n) == IF n < 10 THEN <<n>> ELSE Append(decimal(n \div 10), n % 10)

\* TradeSimulator._generate_order_id: the ID made of the counter it has
\* raised to n, f"SIM-{n:06d}" (six digits at least, zero-padded)
generate_order_id(n) ==
    <<"SIM-">> \o
    (IF Len(decimal(n)) >= 6
     THEN decimal(n)
     ELSE [k \in 1..6 |-> IF k <= 6 - Len(decimal(n)) THEN 0 ELSE decimal(n)[k - (6 - Len(decimal(n)))]])

\* TradeSimulator._apply_slippage
sim_apply_slippage(s, price, side) ==
    IF side = "buy"
    THEN RMul(price, RAdd(ROne, s.slippage_percent))
    ELSE RMul(price, RSub(ROne, s.slippage_percent))

\* the dataclass SimulatedOrder (quantity left out)
SimulatedOrder(order_id, symbol, side, order_type, price, stop_price, status, created_at, filled_at, filled_price) ==
    [order_id |-> order_id, symbol |-> symbol, side |-> side,
     order_type |-> order_type, price |-> price, stop_price |-> stop_price,
     status |-> status, created_at |-> created_at, filled_at |-> filled_at,
     filled_price |-> filled_price]

\* the objects self.orders refers to
listed(ords) == {ords[k] : k \in DOMAIN ords}

\* check_pending_orders filling every listed order, whatever its status
fill_price_any_status(s, order, candle) ==
    IF order.order_type = "limit"
    THEN IF order.side = "buy" /\ RLe(candle.low, order.price) THEN order.price
         ELSE IF order.side = "sell" /\ RLe(order.price, candle.high) THEN order.price
         ELSE None
    ELSE IF order.order_type \in StopTypes
    THEN IF order.side = "buy" /\ RLe(order.stop_price, candle.high)
         THEN sim_apply_slippage(s, order.stop_price, "buy")
         ELSE IF order.side = "sell" /\ RLe(candle.low, order.stop_price)
         THEN sim_apply_slippage(s, order.stop_price, "sell")
         ELSE None
    ELSE None

\* check_pending_orders applying the slippage to limit fills too
fill_price_limit_slipped(s, order, candle) ==
    IF order.status # "pending" THEN None
    ELSE IF order.order_type = "limit"
    THEN IF order.side = "buy" /\ RLe(candle.low, order.price)
         THEN sim_apply_slippage(s, order.price, "buy")
         ELSE IF order.side = "sell" /\ RLe(order.price, candle.high)
         THEN sim_apply_slippage(s, order.price, "sell")
         ELSE None
    ELSE IF order.order_type \in StopTypes
    THEN IF order.side = "buy" /\ RLe(order.stop_price, candle.high)
         THEN sim_apply_slippage(s, order.stop_price, "buy")
         ELSE IF order.side = "sell" /\ RLe(candle.low, order.stop_price)
         THEN sim_apply_slippage(s, order.stop_price, "sell")
         ELSE None
    ELSE None

\* the loop body of check_pending_orders: the price the order fills at
\* against this candle, None when should_fill stays False
fill_price(s, order, candle) ==
    IF order.status # "pending" THEN None
    ELSE IF order.order_type = "limit"
    THEN IF order.side = "buy" /\ RLe(candle.low, order.price) THEN order.price
         ELSE IF order.side = "sell" /\ RLe(order.price, candle.high) THEN order.price
         ELSE None
    ELSE IF order.order_type \in StopTypes
    THEN IF order.side = "buy" /\ RLe(order.stop_price, candle.high)
         THEN sim_apply_slippage(s, order.stop_price, "buy")
         ELSE IF order.side = "sell" /\ RLe(candle.low, order.stop_price)
         THEN sim_apply_slippage(s, order.stop_price, "sell")
         ELSE None
    ELSE None

\* TradeSimulator.check_pending_orders: the objects afterwards and the list
\* it returns
check_pending_orders(s, objs, ords, candle, timestamp) ==
    [objects |->
        [k \in DOMAIN objs |->
            IF k \in listed(ords) /\ fill_price(s, objs[k], candle) # None
            THEN [objs[k] EXCEPT !.status = "filled",
                                 !.filled_at = timestamp,
                                 !.filled_price = fill_price(s, objs[k], candle)]
            ELSE objs[k]],
     filled |-> SelectSeq(ords, LAMBDA r : fill_price(s, objs[r], candle) # None)]

\* TradeSimulator.cancel_order: the first listed order with that ID that is
\* pending is cancelled and True returned; False when there is none
cancel_order(objs, ords, order_id) ==
    LET hits == {k \in DOMAIN ords : objs[ords[k]].order_id = order_id /\ objs[ords[k]].status = "pending"}
        first == CHOOSE k \in hits : \A m \in hits : k <= m
    IN  [objects |-> IF hits = {} THEN objs ELSE [objs EXCEPT ![ords[first]].status = "cancelled"],
         result |-> hits # {}]

\* TradeSimulator.cancel_all_pending: symbol is None or [symbol |-> name]
cancel_all_pending(objs, ords, symbol) ==
    LET hits == {k \in listed(ords) : objs[k].status = "pending" /\ (symbol = None \/ objs[k].symbol = symbol.symbol)}
    IN  [objects |-> [k \in DOMAIN objs |-> IF k \in hits THEN [objs[k] EXCEPT !.status = "cancelled"] ELSE objs[k]],
         result |-> Cardinality(hits)]

\* TradeSimulator.create_market_order: the order is constructed filled, with
\* the ID _generate_order_id returns, appended to self.orders and returned
CreateMarketOrder ==
    /\ runner = "simulator"
    /\ Len(order_objects) < MaxOrders
    /\ \E a \in OrderArgs :
          order_objects' = Append(order_objects,
              SimulatedOrder(generate_order_id(order_counter + 1), a.symbol, a.side, "market", None, None, "filled", a.timestamp, a.timestamp, sim_apply_slippage(cfg, a.price, a.side)))
    /\ order_counter' = order_counter + 1
    /\ orders' = Append(orders, Len(order_objects) + 1)
    /\ sim_last' = [op |-> "create_market_order", result |-> Len(order_objects) + 1]
    /\ UNCHANGED <<runner, replayVars, liveVars, apiVars, supVars, rerunVars>>

\* TradeSimulator.create_limit_order
CreateLimitOrder ==
    /\ runner = "simulator"
    /\ Len(order_objects) < MaxOrders
    /\ \E a \in OrderArgs :
          order_objects' = Append(order_objects,
              SimulatedOrder(generate_order_id(order_counter + 1), a.symbol, a.side, "limit", a.price, None, "pending", a.timestamp, None, None))
    /\ order_counter' = order_counter + 1
    /\ orders' = Append(orders, Len(order_objects) + 1)
    /\ sim_last' = [op |-> "create_limit_order", result |-> Len(order_objects) + 1]
    /\ UNCHANGED <<runner, replayVars, liveVars, apiVars, supVars, rerunVars>>

\* TradeSimulator.create_stop_order
CreateStopOrder ==
    /\ runner = "simulator"
    /\ Len(order_objects) < MaxOrders
    /\ \E a \in OrderArgs, order_type \in StopTypes :
          order_objects' = Append(order_objects,
              SimulatedOrder(generate_order_id(order_counter + 1), a.symbol, a.side, order_type, None, a.price, "pending", a.timestamp, None, None))
    /\ order_counter' = order_counter + 1
    /\ orders' = Append(orders, Len(order_objects) + 1)
    /\ sim_last' = [op |-> "create_stop_order", result |-> Len(order_objects) + 1]
    /\ UNCHANGED <<runner, replayVars, liveVars, apiVars, supVars, rerunVars>>

\* a call of check_pending_orders, with a candle later than the orders
CheckPendingOrders ==
    /\ runner = "simulator"
    /\ \E candle \in Candles, timestamp \in {2} :
         \E out \in {check_pending_orders(cfg, order_objects, orders, candle, timestamp)} :
            /\ order_objects' = out.objects
            /\ sim_last' = [op |-> "check_pending_orders", candle |-> candle,
                            timestamp |-> timestamp, result |-> out.filled]
    /\ UNCHANGED <<orders, order_counter>>
    /\ UNCHANGED <<runner, replayVars, liveVars, apiVars, supVars, rerunVars>>

\* a call of cancel_order, with an ID the caller was given or with one that
\* no order carries
CancelOrder ==
    /\ runner = "simulator"
    /\ \E order_id \in {order_objects[k].order_id : k \in DOMAIN order_objects} \cup {generate_order_id(0)} :
         \E out \in {cancel_order(order_objects, orders, order_id)} :
            /\ order_objects' = out.objects
            /\ sim_last' = [op |-> "cancel_order", order_id |-> order_id, result |-> out.result]
    /\ UNCHANGED <<orders, order_counter>>
    /\ UNCHANGED <<runner, replayVars, liveVars, apiVars, supVars, rerunVars>>

\* a call of cancel_all_pending: without a symbol, with the orders' symbol,
\* or with another one
CancelAllPending ==
    /\ runner = "simulator"
    /\ \E symbol \in {None, [symbol |-> "BTC/USDT"], [symbol |-> "ETH/USDT"]} :
         \E out \in {cancel_all_pending(order_objects, orders, symbol)} :
            /\ order_objects' = out.objects
            /\ sim_last' = [op |-> "cancel_all_pending", symbol |-> symbol, result |-> out.result]
    /\ UNCHANGED <<orders, order_counter>>
    /\ UNCHANGED <<runner, replayVars, liveVars, apiVars, supVars, rerunVars>>

\* TradeSimulator.reset: the list is emptied and the counter zeroed; the
\* objects handed out stay with their holders
SimReset ==
    /\ runner = "simulator"
    /\ orders' = <<>>
    /\ order_counter' = 0
    /\ sim_last' = [op |-> "reset"]
    /\ UNCHANGED order_objects
    /\ UNCHANGED <<runner, replayVars, liveVars, apiVars, supVars, rerunVars>>

\* TradeSimulator(fee_percent=0.1, slippage_percent=0.05): both are divided
\* by 100, the list is empty and the counter zero
SimInit ==
    /\ runner = "simulator"
    /\ cfg = [fee_percent |-> Rat(1, 1000), slippage_percent |-> Rat(1, 2000)]
    /\ N = 0
    /\ i = 0
    /\ pc = "none"
    /\ capital = RZero
    /\ position = None
    /\ trades = <<>>
    /\ equity_curve = <<>>
    /\ signals_log = <<>>
    /\ analyze_calls = <<>>
    /\ only_hold = TRUE
    /\ twin = None
    /\ row = None
    /\ event = [branch |-> "none", signal |-> "none", position_before |-> None]
    /\ LiveIdle
    /\ SimIdle
    /\ ApiIdle
    /\ SupIdle
    /\ RerunIdle

SimNext ==
    \/ CreateMarketOrder
    \/ CreateLimitOrder
    \/ CreateStopOrder
    \/ CheckPendingOrders
    \/ CancelOrder
    \/ CancelAllPending
    \/ SimReset

SimSpec == SimInit /\ [][SimNext]_vars

\* ------------------------------------------------------------------------
\* The live endpoints of the API (src/api/server.py)
\* ------------------------------------------------------------------------

\* engines the API creates in a run
MaxEngines == 3

\* the engines whose thread has been started and has not ended
active(es) == {e \in DOMAIN es : es[e].thread \in {"started", "bound", "loop"}}

\* POST /api/live/start: rejected with 400 when the global engine's _running
\* is set, with 404 when the strategy is unknown; otherwise a new engine
\* replaces the global one and run_live is started on a new thread
StartLiveTrading ==
    /\ runner = "api"
    /\ Len(engines) < MaxEngines
    /\ \E strategy_found \in BOOLEAN :
         IF live_engine # None /\ engines[live_engine.id].running
         THEN /\ api_last' = [request |-> "start", status |-> 400, active |-> active(engines)]
              /\ UNCHANGED <<engines, live_engine>>
         ELSE IF ~strategy_found
         THEN /\ api_last' = [request |-> "start", status |-> 404, active |-> active(engines)]
              /\ UNCHANGED <<engines, live_engine>>
         ELSE /\ engines' = Append(engines, [running |-> FALSE, thread |-> "started", runs |-> 0])
              /\ live_engine' = [id |-> Len(engines) + 1]
              /\ api_last' = [request |-> "start", status |-> 200, active |-> active(engines)]
    /\ UNCHANGED <<runner, replayVars, liveVars, simVars, supVars, rerunVars>>

\* POST /api/live/stop: rejected with 400 unless the global engine's
\* _running is set; otherwise stop() clears the flag of that engine
StopLiveTrading ==
    /\ runner = "api"
    /\ IF live_engine = None \/ ~engines[live_engine.id].running
       THEN /\ api_last' = [request |-> "stop", status |-> 400, active |-> active(engines)]
            /\ UNCHANGED engines
       ELSE /\ engines' = [engines EXCEPT ![live_engine.id].running = FALSE]
            /\ api_last' = [request |-> "stop", status |-> 200, active |-> active(engines)]
    /\ UNCHANGED live_engine
    /\ UNCHANGED <<runner, replayVars, liveVars, simVars, supVars, rerunVars>>

\* a thread begins run_live: it reads the global live_engine (server.py,
\* line 477) to make the coroutine it hands to asyncio.run
RunLive ==
    /\ runner = "api"
    /\ \E t \in DOMAIN engines :
         /\ engines[t].thread = "started"
         /\ engines' = [engines EXCEPT ![t].thread = "bound", ![t].runs = live_engine.id]
    /\ UNCHANGED <<live_engine, api_last>>
    /\ UNCHANGED <<runner, replayVars, liveVars, simVars, supVars, rerunVars>>

\* the event loop of the thread begins run_strategy on that engine: _running
\* is set, then the exchange is connected and the loop entered, or connect
\* raises and the thread ends
RunStrategy ==
    /\ runner = "api"
    /\ \E t \in DOMAIN engines, connected \in BOOLEAN :
         /\ engines[t].thread = "bound"
         /\ engines' = [e \in DOMAIN engines |->
                          [running |-> IF e = engines[t].runs THEN TRUE ELSE engines[e].running,
                           thread |-> IF e # t THEN engines[e].thread ELSE IF connected THEN "loop" ELSE "ended",
                           runs |-> engines[e].runs]]
    /\ UNCHANGED <<live_engine, api_last>>
    /\ UNCHANGED <<runner, replayVars, liveVars, simVars, supVars, rerunVars>>

\* the loop of run_strategy ends once it finds its engine's _running cleared
\* (or the stop event set), and the thread with it
RunLiveReturns ==
    /\ runner = "api"
    /\ \E t \in DOMAIN engines :
         /\ engines[t].thread = "loop"
         /\ ~engines[engines[t].runs].running
         /\ engines' = [engines EXCEPT ![t].thread = "ended"]
    /\ UNCHANGED <<live_engine, api_last>>
    /\ UNCHANGED <<runner, replayVars, liveVars, simVars, supVars, rerunVars>>

\* the server after import: no engine yet
ApiInit ==
    /\ runner = "api"
    /\ cfg = None
    /\ ReplayIdle
    /\ LiveIdle
    /\ SimIdle
    /\ ApiIdle
    /\ SupIdle
    /\ RerunIdle

ApiNext ==
    \/ StartLiveTrading
    \/ StopLiveTrading
    \/ RunLive
    \/ RunStrategy
    \/ RunLiveReturns

ApiSpec == ApiInit /\ [][ApiNext]_vars

\* ------------------------------------------------------------------------
\* ProcessSupervisor (src/utils/supervisor.py)
\* ------------------------------------------------------------------------

\* exits the child makes of its own accord in a run
MaxCrashes == 4

\* RestartConfig: at most one or two restarts in a window of 3 ticks, a
\* delay of 1 tick that doubles up to 2
RestartConfigs ==
    [max_restarts : {1, 2}, restart_window : {3}, initial_delay : {1},
     max_delay : {2}, backoff_multiplier : {2}]

\* how long a child runs before it exits of its own accord, in ticks: not
\* at all, briefly, or longer than the restart window
Runtimes == {0, 1, 4}

\* _should_restart forgetting every recorded restart time
should_restart_window_emptied(c, times, shutdown, t_now) ==
    IF shutdown
    THEN [restart_times |-> times, restart |-> FALSE]
    ELSE [restart_times |-> SelectSeq(times, LAMBDA t : t > t_now),
          restart |-> Len(SelectSeq(times, LAMBDA t : t > t_now)) < c.max_restarts]

\* ProcessSupervisor._should_restart: the restart times it keeps and its
\* answer
should_restart(c, times, shutdown, t_now) ==
    IF shutdown
    THEN [restart_times |-> times, restart |-> FALSE]
    ELSE [restart_times |-> SelectSeq(times, LAMBDA t : t > t_now - c.restart_window),
          restart |-> Len(SelectSeq(times, LAMBDA t : t > t_now - c.restart_window)) < c.max_restarts]

\* start(), lines 182-183
SupStart ==
    /\ runner = "supervisor"
    /\ sup_pc = "idle"
    /\ sup_running' = TRUE
    /\ shutdown_requested' = FALSE
    /\ sup_pc' = "loop_test"
    /\ UNCHANGED <<clock, process, restart_times, current_delay, started>>
    /\ UNCHANGED <<runner, replayVars, liveVars, simVars, apiVars, rerunVars>>

\* start(), line 187: the test of the while loop
SupLoopTest ==
    /\ runner = "supervisor"
    /\ sup_pc = "loop_test"
    /\ sup_pc' = IF sup_running THEN "start_process" ELSE "returned"
    /\ UNCHANGED <<clock, sup_running, shutdown_requested, process, restart_times, current_delay, started>>
    /\ UNCHANGED <<runner, replayVars, liveVars, simVars, apiVars, rerunVars>>

\* start(), lines 189-190: _start_process makes the child and self._process
\* is assigned
SupStartProcess ==
    /\ runner = "supervisor"
    /\ sup_pc = "start_process"
    /\ process' = [alive |-> TRUE, start_time |-> clock]
    /\ started' = Append(started, [time |-> clock, shutdown_requested |-> shutdown_requested])
    /\ sup_pc' = "monitoring"
    /\ UNCHANGED <<clock, sup_running, shutdown_requested, restart_times, current_delay>>
    /\ UNCHANGED <<runner, replayVars, liveVars, simVars, apiVars, rerunVars>>

\* the child exits of its own accord after some runtime
ChildExits ==
    /\ runner = "supervisor"
    /\ process # None
    /\ process.alive
    /\ Len(started) <= MaxCrashes
    /\ \E runtime \in Runtimes :
         /\ clock' = clock + runtime
         /\ process' = [process EXCEPT !.alive = FALSE]
    /\ UNCHANGED <<sup_pc, sup_running, shutdown_requested, restart_times, current_delay, started>>
    /\ UNCHANGED <<runner, replayVars, liveVars, simVars, apiVars, rerunVars>>

\* start(), lines 193-196: _log_output and wait return once the child is gone
SupWaitReturns ==
    /\ runner = "supervisor"
    /\ sup_pc = "monitoring"
    /\ ~process.alive
    /\ sup_pc' = "exited"
    /\ UNCHANGED <<clock, sup_running, shutdown_requested, process, restart_times, current_delay, started>>
    /\ UNCHANGED <<runner, replayVars, liveVars, simVars, apiVars, rerunVars>>

\* start(), lines 199-225: leave the loop on a shutdown request; otherwise
\* record the restart time and reset the back-off after a long run
SupAfterExit ==
    /\ runner = "supervisor"
    /\ sup_pc = "exited"
    /\ IF shutdown_requested
       THEN /\ sup_pc' = "returned"
            /\ UNCHANGED <<restart_times, current_delay>>
       ELSE /\ restart_times' = Append(restart_times, clock)
            /\ current_delay' = IF clock - process.start_time > cfg.restart_window
                                THEN cfg.initial_delay
                                ELSE current_delay
            /\ sup_pc' = "should_restart"
    /\ UNCHANGED <<clock, sup_running, shutdown_requested, process, started>>
    /\ UNCHANGED <<runner, replayVars, liveVars, simVars, apiVars, rerunVars>>

\* start(), lines 228-230: _should_restart, and the end of supervision when
\* it answers no
SupShouldRestart ==
    /\ runner = "supervisor"
    /\ sup_pc = "should_restart"
    /\ \E r \in {should_restart(cfg, restart_times, shutdown_requested, clock)} :
         /\ restart_times' = r.restart_times
         /\ sup_running' = IF r.restart THEN sup_running ELSE FALSE
         /\ sup_pc' = IF r.restart THEN "backoff" ELSE "returned"
    /\ UNCHANGED <<clock, shutdown_requested, process, current_delay, started>>
    /\ UNCHANGED <<runner, replayVars, liveVars, simVars, apiVars, rerunVars>>

\* start(), lines 233-242: _wait_with_backoff sleeps the current delay and
\* raises it for the next time
SupBackoff ==
    /\ runner = "supervisor"
    /\ sup_pc = "backoff"
    /\ clock' = clock + current_delay
    /\ current_delay' = IF current_delay * cfg.backoff_multiplier <= cfg.max_delay
                        THEN current_delay * cfg.backoff_multiplier
                        ELSE cfg.max_delay
    /\ sup_pc' = "loop_test"
    /\ UNCHANGED <<sup_running, shutdown_requested, process, restart_times, started>>
    /\ UNCHANGED <<runner, replayVars, liveVars, simVars, apiVars, rerunVars>>

\* a shutdown request while start() is executing: _handle_signal (SIGTERM,
\* SIGINT) runs between two statements of start(), or stop() is called from
\* another thread; both set the flags and terminate the child self._process
\* refers to, if it is alive
SupShutdown ==
    /\ runner = "supervisor"
    /\ sup_pc \notin {"idle", "returned"}
    /\ shutdown_requested' = TRUE
    /\ sup_running' = FALSE
    /\ process' = IF process # None /\ process.alive
                  THEN [process EXCEPT !.alive = FALSE]
                  ELSE process
    /\ UNCHANGED <<sup_pc, clock, restart_times, current_delay, started>>
    /\ UNCHANGED <<runner, replayVars, liveVars, simVars, apiVars, rerunVars>>

\* ProcessSupervisor.__init__
SupInit ==
    /\ runner = "supervisor"
    /\ cfg \in RestartConfigs
    /\ N = 0
    /\ i = 0
    /\ pc = "none"
    /\ capital = RZero
    /\ position = None
    /\ trades = <<>>
    /\ equity_curve = <<>>
    /\ signals_log = <<>>
    /\ analyze_calls = <<>>
    /\ only_hold = TRUE
    /\ twin = None
    /\ row = None
    /\ event = [branch |-> "none", signal |-> "none", position_before |-> None]
    /\ LiveIdle
    /\ SimIdle
    /\ ApiIdle
    /\ RerunIdle
    /\ sup_pc = "idle"
    /\ clock = 0
    /\ sup_running = FALSE
    /\ shutdown_requested = FALSE
    /\ process = None
    /\ restart_times = <<>>
    /\ current_delay = cfg.initial_delay
    /\ started = <<>>

SupNext ==
    \/ SupStart
    \/ SupLoopTest
    \/ SupStartProcess
    \/ ChildExits
    \/ SupWaitReturns
    \/ SupAfterExit
    \/ SupShouldRestart
    \/ SupBackoff
    \/ SupShutdown

SupSpec == SupInit /\ [][SupNext]_vars

\* start() runs on a thread that is scheduled: each of its statements that
\* can be executed eventually is, and a sleep ends.  Nothing obliges the
\* child to exit, nor anyone to request a shutdown.
SupFairness ==
    /\ WF_vars(SupLoopTest)
    /\ WF_vars(SupStartProcess)
    /\ WF_vars(SupWaitReturns)
    /\ WF_vars(SupAfterExit)
    /\ WF_vars(SupShouldRestart)
    /\ WF_vars(SupBackoff)

SupLiveSpec == SupInit /\ [][SupNext]_vars /\ SupFairness

\* ------------------------------------------------------------------------
\* BacktestEngine.run called again and again on one engine, next to the same
\* run on an engine constructed for it
\* ------------------------------------------------------------------------

\* runs made on the one engine
MaxRuns == 2

\* run() up to its loop (engine.py 236-250): _reset binds self.trades to a
\* new list; the engine constructed for the comparison (__init__, 110-115)
\* starts the same run, on a table whose loop goes through one or two rows
RerunStart ==
    /\ runner = "rerun"
    /\ pc \in {"calls", "done"}
    /\ Len(results) < MaxRuns
    /\ \E e \in {reset(cfg)} :
         /\ capital' = e.capital
         /\ position' = e.position
         /\ trades' = e.trades
         /\ equity_curve' = e.equity_curve
         /\ lists' = Append(lists, e.trades)
         /\ trades_list' = Len(lists) + 1
    /\ twin' = [capital |-> cfg.initial_capital, position |-> None,
                trades |-> <<>>, equity_curve |-> <<>>]
    /\ \E rows \in {1, 2} : N' = cfg.min_history + rows
    /\ i' = cfg.min_history
    /\ pc' = "loop"
    /\ row' = None
    /\ event' = [branch |-> "none", signal |-> "none", position_before |-> None]
    /\ UNCHANGED <<runner, simVars, apiVars, supVars, cfg, signals_log, analyze_calls, only_hold, results>>
    /\ UNCHANGED liveVars

\* bar i of both loops (engine.py 250-319): the same row and the same answer
\* of analyze(df, i); self.trades.append changes the list in place
RerunStep ==
    /\ runner = "rerun"
    /\ pc = "loop"
    /\ i < N
    /\ \E bar \in Bars, sig \in Signals :
       \E rc \in {IF position # None
                  THEN batch_risk_check(cfg, Eng, timestamp_of(i), bar)
                  ELSE [eng |-> Eng, stopped_out |-> FALSE, event |-> "none"]} :
       \E e3 \in {IF batch_skip_signal(rc.stopped_out) THEN rc.eng
                  ELSE batch_process_signal(cfg, rc.eng, sig, timestamp_of(i),
                                            bar.close)} :
       \E frc \in {IF twin.position # None
                   THEN batch_risk_check(cfg, TwinEng, timestamp_of(i), bar)
                   ELSE [eng |-> TwinEng, stopped_out |-> FALSE, event |-> "none"]} :
       \E f3 \in {IF batch_skip_signal(frc.stopped_out) THEN frc.eng
                  ELSE batch_process_signal(cfg, frc.eng, sig, timestamp_of(i),
                                            bar.close)} :
            /\ capital' = e3.capital
            /\ position' = e3.position
            /\ trades' = e3.trades
            /\ lists' = [lists EXCEPT ![trades_list] = e3.trades]
            /\ equity_curve' = batch_record_equity(equity_curve,
                                   batch_skip_signal(rc.stopped_out), e3,
                                   timestamp_of(i), bar.close)
            /\ twin' = [capital |-> f3.capital, position |-> f3.position,
                        trades |-> f3.trades,
                        equity_curve |-> batch_record_equity(twin.equity_curve,
                                   batch_skip_signal(frc.stopped_out), f3,
                                   timestamp_of(i), bar.close)]
            /\ event' = [branch |-> IF rc.stopped_out THEN rc.event
                                    ELSE signal_event(rc.eng, sig),
                         signal |-> IF batch_skip_signal(rc.stopped_out)
                                    THEN "none" ELSE sig.signal,
                         position_before |-> position]
            /\ row' = [timestamp |-> timestamp_of(i), low |-> bar.low,
                       close |-> bar.close, high |-> bar.high]
            /\ i' = i + 1
    /\ UNCHANGED <<runner, simVars, apiVars, supVars, cfg, N, pc, signals_log, analyze_calls, only_hold, results, trades_list>>
    /\ UNCHANGED liveVars

\* both runs after their loops (engine.py 321-347); the BacktestResult
\* returned (328-342) holds a new list, a copy of self.trades, and a new
\* table of the equity curve
RerunFinish ==
    /\ runner = "rerun"
    /\ pc = "loop"
    /\ i = N
    /\ \E e \in {batch_close_at_end(cfg, Eng, row)} :
       \E f \in {batch_close_at_end(cfg, TwinEng, row)} :
           /\ capital' = e.capital
           /\ position' = e.position
           /\ trades' = e.trades
           /\ lists' = Append([lists EXCEPT ![trades_list] = e.trades], e.trades)
           /\ results' = Append(results,
                             [trades |-> Len(lists) + 1,
                              equity_curve |-> equity_curve,
                              final_capital |-> e.capital])
           /\ twin' = [twin EXCEPT !.capital = f.capital, !.position = f.position,
                                   !.trades = f.trades]
           /\ event' = [branch |-> IF position # None THEN "end_of_data" ELSE "none",
                        signal |-> "none",
                        position_before |-> position]
    /\ pc' = "done"
    /\ UNCHANGED <<runner, simVars, apiVars, supVars, cfg, N, i, equity_curve, signals_log, analyze_calls, only_hold, row, trades_list>>
    /\ UNCHANGED liveVars

\* an engine just constructed: self.trades is the list _reset made in __init__
RerunInit ==
    /\ runner = "rerun"
    /\ \E args \in RunnerArgs : cfg = construct(args)
    /\ N = 0
    /\ i = 0
    /\ pc = "calls"
    /\ capital = cfg.initial_capital
    /\ position = None
    /\ trades = <<>>
    /\ equity_curve = <<>>
    /\ signals_log = <<>>
    /\ analyze_calls = <<>>
    /\ only_hold = TRUE
    /\ twin = None
    /\ row = None
    /\ event = [branch |-> "none", signal |-> "none", position_before |-> None]
    /\ LiveIdle
    /\ SimIdle
    /\ ApiIdle
    /\ SupIdle
    /\ results = <<>>
    /\ lists = << <<>> >>
    /\ trades_list = 1

RerunNext ==
    \/ RerunStart
    \/ RerunStep
    \/ RerunFinish

RerunSpec == RerunInit /\ [][RerunNext]_vars

\* ------------------------------------------------------------------------
\* Properties
\* ------------------------------------------------------------------------

IsReplay == runner \in {"batch", "validation"}

Last(seq) == seq[Len(seq)]

RECURSIVE SumPnl(_)
SumPnl(ts) == IF ts = <<>> THEN RZero ELSE RAdd(ts[1].pnl, SumPnl(Tail(ts)))

\* the trades of the ledger that exit at a timestamp
ExitsAt(ts) == {k \in 1..Len(trades) : trades[k].exit_time = ts}

\* C1: at most one position is open per symbol in every runner: a position
\* that is open before and after a step is the same position (entry price,
\* quantity, stop loss, take profit), and a Buy signal arriving while a
\* position is open makes no open.
C1_OnePositionPerSymbol ==
    /\ IsReplay =>
        /\ (event.position_before # None /\ position # None)
              => position = event.position_before
        /\ (event.position_before # None /\ event.signal = BUY)
              => event.branch = "none" /\ position = event.position_before
    /\ (runner = "live" /\ live_last # None) =>
        /\ DOMAIN positions \subseteq {Symbol}
        /\ (live_last.position_at_start # None /\ Symbol \in DOMAIN positions)
              => positions[Symbol] = live_last.position_at_start
        /\ (live_last.position_at_start # None /\ live_last.signal = BUY)
              => \A k \in 1..Len(live_last.calls) :
                    live_last.calls[k].op # "open_position"

\* C1 witness: the batch runner got a Buy signal on a bar it began with an
\* open position
C1_Witness ==
    /\ runner = "batch"
    /\ event.position_before # None
    /\ event.signal = BUY
    /\ position # None

C3_TriggerSkipsSignal ==
    (IsReplay /\ event.branch \in {"stop_loss", "take_profit"})
    => /\ position = None
       /\ event.signal = "none"
       /\ \A k \in 1..Len(analyze_calls) : analyze_calls[k] # i - 1
       /\ \A k \in 1..Len(signals_log) : signals_log[k].index # i - 1
       /\ Cardinality(ExitsAt(row.timestamp)) = 1

\* C3 witness: a take profit fired in the validation runner
C3_Witness ==
    /\ runner = "validation"
    /\ event.branch = "take_profit"
    /\ Len(analyze_calls) >= 1

\* the risk trigger that is due for a position at a price: stop loss first
TriggerDue(pos, low, high) ==
    IF pos = None THEN "none"
    ELSE IF Truthy(pos.stop_loss) /\ RLe(low, pos.stop_loss) THEN "stop_loss"
    ELSE IF Truthy(pos.take_profit) /\ RLe(pos.take_profit, high) THEN "take_profit"
    ELSE "none"

\* C4: a live iteration that starts with an open position checks stop loss
\* and take profit before it acts on the signal, and when a trigger is due
\* the signal is not acted on: the first call is the trigger's close and no
\* call is made for the signal.
C4_LiveTriggerBeforeSignal ==
    (/\ runner = "live"
     /\ live_last # None
     /\ live_last.fetched = "ok"
     /\ live_last.position_at_start # None
     /\ TriggerDue(live_last.position_at_start, live_last.current_price,
                   live_last.current_price) # "none")
    => /\ live_last.calls # <<>>
       /\ live_last.calls[1].op = "close_position"
       /\ live_last.calls[1].reason =
             TriggerDue(live_last.position_at_start, live_last.current_price,
                        live_last.current_price)
       /\ \A k \in 1..Len(live_last.calls) : live_last.calls[k].reason # "signal"

\* C5: in the runners that simulate fills (batch, validation, paper) a stop
\* loss or take profit closes the position with the trigger level as the
\* reference price, exit slippage applied to it; never the close of the bar
\* or a freshly fetched market price.
C5_TriggerExitAtLevel ==
    /\ (IsReplay /\ event.branch = "stop_loss")
          => Last(trades).exit_price =
                apply_slippage(cfg, event.position_before.stop_loss, "sell")
    /\ (IsReplay /\ event.branch = "take_profit")
          => Last(trades).exit_price =
                apply_slippage(cfg, event.position_before.take_profit, "sell")
    /\ (runner = "live" /\ mode = "paper" /\ live_last # None) =>
          \A k \in 1..Len(live_last.calls) :
             LET call == live_last.calls[k]
                 pos == live_last.position_at_start
             IN  (call.op = "close_position" /\ call.ok
                    /\ call.reason \in {"stop_loss", "take_profit"})
                 => Last(trade_history).price =
                       paper_fill(IF call.reason = "stop_loss"
                                  THEN pos.stop_loss ELSE pos.take_profit,
                                  "sell", pos.quantity).price

\* C6: a replay over N bars with required history H < N has one equity point
\* per bar handled: after the bar with index j the curve has j + 1 - H
\* points, the k-th with the timestamp of bar H + k, and N - H points when
\* the run is done, whatever each bar ended in.
C6_OneEquityPointPerBar ==
    IsReplay =>
        /\ Len(equity_curve) = i - cfg.min_history
        /\ \A k \in 1..Len(equity_curve) :
              equity_curve[k].timestamp = timestamp_of(cfg.min_history + k - 1)
        /\ pc = "done" => Len(equity_curve) = N - cfg.min_history

\* C6 witness: a finished validation run of three bars or more, one of which
\* ended in a risk trigger and one in a signal-driven close
C6_Witness ==
    /\ runner = "validation"
    /\ pc = "done"
    /\ Len(equity_curve) >= 3
    /\ \E k \in 1..Len(trades) : trades[k].exit_reason = "stop_loss"
    /\ \E k \in 1..Len(trades) : trades[k].exit_reason = "signal"

\* C7: at every step of a replay the realized capital is the initial capital
\* plus the sum of the pnl of the trades in the ledger; a step that opens a
\* position changes neither the capital nor the ledger, and a step that
\* closes one appends one trade and changes the capital by its pnl.
C7_CapitalIsInitialPlusPnl ==
    /\ [](IsReplay => capital = RAdd(cfg.initial_capital, SumPnl(trades)))
    /\ [][IsReplay =>
            /\ event'.branch = "open" => capital' = capital /\ trades' = trades
            /\ event'.branch \in {"stop_loss", "take_profit", "signal", "end_of_data"}
                  => /\ Len(trades') = Len(trades) + 1
                     /\ capital' = RAdd(capital, Last(trades').pnl)]_vars

\* C7 witness: a position was opened after an earlier trade closed with a
\* pnl that is not zero
C7_Witness ==
    /\ IsReplay
    /\ event.branch = "open"
    /\ position # None
    /\ Len(trades) >= 1
    /\ trades[1].pnl # RZero

\* the position size a runner was constructed with, clamped to [0.01, 1.0]
ClampedFraction ==
    IF RLt(cfg.args.position_size, Rat(1, 100)) THEN Rat(1, 100)
    ELSE IF RLt(ROne, cfg.args.position_size) THEN ROne
    ELSE cfg.args.position_size

\* C8: every open of a replay has entry price = reference price * (1 +
\* slippage rate), entry fee = capital * fraction * fee rate and quantity =
\* (capital * fraction - entry fee) / entry price, with the capital at the
\* open and the position size clamped to [0.01, 1.0]; with capital 10000,
\* fee rate 0.001, slippage rate 0.0005, fraction 1 and price 100 the entry
\* price is 100.05 and the quantity 9990 / 100.05.
C8_OpenSizing ==
    /\ (IsReplay /\ event.branch = "open") =>
        LET feeRate == RDiv(cfg.args.fee_percent, RInt(100))
            slippageRate == RDiv(cfg.args.slippage_percent, RInt(100))
            tradeCapital == RMul(capital, ClampedFraction)
            entryFee == RMul(tradeCapital, feeRate)
            entryPrice == RMul(row.close, RAdd(ROne, slippageRate))
        IN  /\ position.entry_price = entryPrice
            /\ position.entry_fee = entryFee
            /\ position.quantity = RDiv(RSub(tradeCapital, entryFee), entryPrice)
            /\ position.entry_time = row.timestamp
    /\ LET flat == [capital |-> configured_engine.initial_capital,
                    position |-> None, trades |-> <<>>]
           buy == [signal |-> BUY, stop_loss |-> None, take_profit |-> None]
           b == open_position(configured_engine, flat, 1, RInt(100), "long").position
           v == validator_process_signal(configured_engine, flat, buy, 1,
                                         RInt(100)).position
       IN  /\ configured_engine.fee = Rat(1, 1000)
           /\ configured_engine.slippage = Rat(5, 10000)
           /\ configured_engine.position_size = ROne
           /\ b.entry_price = Rat(10005, 100)
           /\ b.quantity = RDiv(RInt(9990), Rat(10005, 100))
           /\ v.entry_price = Rat(10005, 100)
           /\ v.quantity = RDiv(RInt(9990), Rat(10005, 100))

\* C8 witness: an open from a capital that earlier trades changed, with a
\* position size that the constructor clamped
C8_Witness ==
    /\ IsReplay
    /\ event.branch = "open"
    /\ trades # <<>>
    /\ capital # cfg.initial_capital
    /\ cfg.args.position_size # ClampedFraction

\* C9: in every runner the pnl recorded for a completed round trip of a
\* long position is (exit fill price - entry fill price) * quantity minus
\* the sum of the entry fee and the exit fee.
C9_PnlNetOfBothFees ==
    /\ (IsReplay /\ event.branch \in {"stop_loss", "take_profit", "signal",
                                      "end_of_data"}) =>
          LET t == Last(trades)
              exit_fee == RMul(RMul(t.quantity, t.exit_price), cfg.fee)
          IN  t.pnl = RSub(RMul(RSub(t.exit_price, t.entry_price), t.quantity),
                           RAdd(event.position_before.entry_fee, exit_fee))
    /\ runner = "live" =>
          \A k \in 1..Len(trade_history) :
             trade_history[k].pnl # None =>
                /\ k > 1
                /\ trade_history[k].pnl =
                      RSub(RMul(RSub(trade_history[k].price, trade_history[k - 1].price),
                                trade_history[k].quantity),
                           RAdd(trade_history[k - 1].fee, trade_history[k].fee))

\* C10: a simulated fill of paper mode has the fill price and fee of the
\* batch kernel's formulas, price * (1 +- slippage rate) and notional * fee
\* rate, evaluated with the rates the session is configured with.
C10_PaperFillIsKernelFill ==
    (runner = "live" /\ mode = "paper" /\ live_last # None) =>
        \A k \in 1..Len(live_last.calls) :
           LET call == live_last.calls[k]
               rec == Last(trade_history)
           IN  (call.ok /\ k = Len(live_last.calls)) =>
                  /\ rec.price = apply_slippage(configured_engine, call.ext.price, rec.side)
                  /\ rec.fee = calculate_fee(configured_engine,
                                             RMul(rec.quantity, rec.price))

\* C11: in dry-run mode no sequence of iterations and open/close calls
\* changes the open positions or a balance: whatever the strategy signals,
\* the positions map stays empty and the balances stay as they were set.
C11_DryRunMutatesNothing ==
    (runner = "live" /\ mode = "dry_run")
    => /\ positions = <<>>
       /\ paper_balances = <<>>

\* the cost of a paper buy of a quantity at a ticker price: quantity * fill
\* price + fee, with the fill price and fee of paper mode
PaperBuyCost(quantity, ticker) ==
    LET fill == RMul(ticker, Rat(1001, 1000))
    IN  RAdd(RMul(quantity, fill), RMul(RMul(quantity, fill), Rat(1, 1000)))

\* the first call of the iteration that has just run is a paper buy that
\* got a ticker price
PaperBuyStep ==
    /\ runner = "live"
    /\ mode = "paper"
    /\ iters' = iters + 1
    /\ live_last'.calls # <<>>
    /\ live_last'.calls[1].op = "open_position"
    /\ live_last'.calls[1].ext # None

\* C12: a paper buy whose cost (quantity * fill price + fee) exceeds the
\* free quote balance is rejected as a whole: no position, no trade record,
\* every balance unchanged; a buy that is not rejected was fully funded.
C12_UnfundedBuyRejected ==
    [][PaperBuyStep =>
        LET free == paper_free(LiveEng, quote_of(Symbol))
            quantity == RDiv(RMul(free, position_size), live_last'.current_price)
            cost == PaperBuyCost(quantity, live_last'.calls[1].ext.price)
        IN  IF RLt(free, cost)
            THEN /\ ~live_last'.calls[1].ok
                 /\ ~live_last'.raised
                 /\ positions' = positions
                 /\ positions' = <<>>
                 /\ trade_history' = trade_history
                 /\ paper_balances' = paper_balances
            ELSE /\ live_last'.calls[1].ok
                 /\ positions'[Symbol].quantity = quantity
                 /\ paper_free([paper_balances |-> paper_balances'], quote_of(Symbol))
                       = RSub(free, cost)]_vars

\* C12 witness: a paper buy was rejected for its cost: the ticker price was
\* fetched, the call failed, and the engine is flat with its balance intact
C12_Witness ==
    /\ runner = "live"
    /\ mode = "paper"
    /\ live_last # None
    /\ live_last.calls # <<>>
    /\ live_last.calls[1].op = "open_position"
    /\ live_last.calls[1].ext # None
    /\ ~live_last.calls[1].ok
    /\ positions = <<>>
    /\ paper_free(LiveEng, quote_of(Symbol)) = InitialBalance

\* a direct call of the batch kernel has just been made
KernelCall == runner = "kernel" /\ i' = i + 1

\* a direct call of the live engine's operation op has just been made
EngineCall(op) ==
    /\ runner = "engine"
    /\ iters' = iters + 1
    /\ live_last'.calls[1].op = op

\* C13: closing when no position is open fails, with an error from the
\* batch kernel and a failure result from the live engine, and leaves
\* capital, balances, the trade ledger and the positions as they were.
C13_CloseWithoutPositionFails ==
    [][/\ (KernelCall /\ event'.branch \in {"close", "error"} /\ position = None)
            => /\ event'.branch = "error"
               /\ capital' = capital
               /\ trades' = trades
               /\ position' = None
       /\ (EngineCall("close_position") /\ ~has_position(LiveEng, Symbol))
            => /\ ~live_last'.calls[1].ok
               /\ ~live_last'.raised
               /\ positions' = positions
               /\ trade_history' = trade_history
               /\ paper_balances' = paper_balances]_vars

\* C13 witness: the batch kernel was asked to close after a round trip had
\* left it flat, and raised
C13_Witness ==
    /\ runner = "kernel"
    /\ event.branch = "error"
    /\ event.position_before = None
    /\ trades # <<>>
    /\ capital # cfg.initial_capital

\* C14: opening while a position is open for the symbol is rejected with an
\* error and leaves the position unchanged, in the batch kernel's open
\* operation and in the live engine's open_position; a position is created
\* only by an open from the flat state and removed only by a close.
C14_OpenWhileOpenRejected ==
    [][/\ (KernelCall /\ event'.branch \in {"open", "error"} /\ position # None)
            => /\ event'.branch = "error"
               /\ position' = position
       /\ (EngineCall("open_position") /\ has_position(LiveEng, Symbol))
            => /\ ~live_last'.calls[1].ok
               /\ positions' = positions
               /\ trade_history' = trade_history
               /\ paper_balances' = paper_balances
       /\ (KernelCall /\ position' # position)
            => \/ position = None /\ event'.branch = "open"
               \/ position' = None /\ event'.branch = "close"
       /\ (runner = "engine" /\ positions' # positions)
            => \/ positions = <<>> /\ live_last'.calls[1].op = "open_position"
               \/ positions' = <<>> /\ live_last'.calls[1].op = "close_position"]_vars

\* the step in which run() leaves its loop and returns
ReplayReturns == IsReplay /\ pc = "loop" /\ pc' = "done"

C16_HoldOnlyRunIsInert ==
    (IsReplay /\ only_hold) =>
        /\ trades = <<>>
        /\ position = None
        /\ capital = cfg.initial_capital
        /\ \A k \in 1..Len(equity_curve) :
              equity_curve[k].equity = cfg.initial_capital
        /\ Len(analyze_calls) = i - cfg.min_history
        /\ pc = "done" => event.branch = "none"

\* C16 witness: a batch run of three bars or more returned with Hold as the
\* only signal
C16_Witness ==
    /\ runner = "batch"
    /\ pc = "done"
    /\ only_hold
    /\ Len(analyze_calls) >= 3
    /\ Len(equity_curve) >= 3

\* what an iteration of the live loop can change: the fetch and call record,
\* the positions, the trade history and the paper balances
LiveEffects == <<iters, live_last, positions, trade_history, paper_balances>>

\* C17: once stop() has been called with the loop suspended between
\* iterations (the wait for the stop event, or the sleep after an empty
\* fetch), the loop makes no fetch, open, close or order any more, and it
\* ends after at most the one suspension it is in: the wait ends in
\* "stopped", the sleep returns to the loop condition, which ends the loop.
C17_StopWhileSuspended ==
    [][(runner = "live" /\ stop_event /\ live_pc \in {"waiting", "sleeping", "loop"}) =>
          /\ UNCHANGED LiveEffects
          /\ live_pc = "waiting" => live_pc' \in {"waiting", "stopped"}
          /\ live_pc = "sleeping" => live_pc' \in {"sleeping", "loop"}
          /\ live_pc = "loop" => live_pc' \in {"loop", "stopped"}]_vars

\* C17 witness: the loop has ended on a stop request after the sleep that
\* follows an empty fetch
C17_Witness ==
    /\ runner = "live"
    /\ live_pc = "stopped"
    /\ stop_event
    /\ live_last # None
    /\ live_last.fetched = "empty"

\* C17 witness of the other suspension: the loop has ended on a stop request
\* in the wait that follows an iteration that opened a position
C17_WitnessWait ==
    /\ runner = "live"
    /\ live_pc = "stopped"
    /\ stop_event
    /\ live_last # None
    /\ live_last.fetched = "ok"
    /\ has_position(LiveEng, Symbol)

\* stop() has been called since the loop was started: only stop clears
\* _running once line 397 has set it
StopRequested ==
    /\ runner = "live"
    /\ live_pc \notin {"none", "idle"}
    /\ ~running

\* run_strategy has returned, or has ended on the exception of connect
LoopTerminated == live_pc \in {"stopped", "failed"}

\* C18: a stop() request made after the loop was started, wherever it
\* arrives (start-up, iteration, wait or sleep), leads to the end of the
\* loop, and no iteration begins once it is made; the iteration it arrives
\* in is completed with its effects.
C18_StopEventuallyTerminates ==
    /\ StopRequested ~> LoopTerminated
    /\ [][StopRequested => UNCHANGED LiveEffects]_vars

\* C18 witness: the loop has ended on a stop request that arrived during
\* start-up, before any iteration
C18_Witness ==
    /\ StopRequested
    /\ live_pc = "stopped"
    /\ iters = 0

\* C18 witness of a stop request arriving in an iteration: the iteration's
\* close took effect and the loop ended after it
C18_WitnessIteration ==
    /\ StopRequested
    /\ live_pc = "stopped"
    /\ live_last # None
    /\ live_last.calls # <<>>
    /\ live_last.calls[1].op = "close_position"
    /\ live_last.calls[1].ok
    /\ ~has_position(LiveEng, Symbol)

\* the step is an iteration of the live loop
IterationStep == runner = "live" /\ iters' = iters + 1

\* an order submitted by the iteration just made failed: the exchange call
\* of _execute_order gave nothing (PAPER: no ticker price, LIVE:
\* create_order raised)
OrderSubmissionFailed(last) ==
    /\ mode \in {"paper", "live"}
    /\ \E k \in 1..Len(last.calls) : last.calls[k].ext = None

\* the iteration changed no position, no balance and no trade record, and
\* the loop goes on to its wait
IterationAbandoned ==
    /\ UNCHANGED <<positions, trade_history, paper_balances>>
    /\ live_pc' = "waiting"

\* C19: an iteration in which the market-data fetch or an order submission
\* fails changes no position, no balance and no trade record, and the loop
\* goes on to the wait before the next iteration.
C19_FailedIterationChangesNothing ==
    [][(IterationStep /\ (live_last'.fetched = "error" \/ OrderSubmissionFailed(live_last')))
          => IterationAbandoned]_vars

\* the part of C19 about the market-data fetch alone
C19_FailedFetchChangesNothing ==
    [][(IterationStep /\ live_last'.fetched = "error") => IterationAbandoned]_vars

\* the part of C19 about an iteration whose only order submission failed
C19_OnlyOrderFailedChangesNothing ==
    [][(IterationStep /\ OrderSubmissionFailed(live_last') /\ Len(live_last'.calls) = 1)
          => IterationAbandoned]_vars

\* the closing trade of the listed position is already in the history: the
\* last trade carries a pnl and is later than the position's entry
HalfClosed(L) ==
    /\ has_position(L, Symbol)
    /\ L.trade_history # <<>>
    /\ Last(L.trade_history).pnl # None
    /\ Last(L.trade_history).timestamp > get_position(L, Symbol).entry_time

\* the PAPER balance of the base currency is not the quantity of the listed
\* position: a fill has moved the balance and its record is not there yet
BalanceAhead(L) ==
    /\ L.paper_balances # <<>>
    /\ paper_free(L, base_of(Symbol)) #
           (IF has_position(L, Symbol) THEN get_position(L, Symbol).quantity
            ELSE RZero)

\* C20: no reader, on whatever thread, sees the closing trade recorded with
\* the position still listed, or a balance updated for a fill whose
\* position or trade is not recorded yet.
C20_NoHalfStateObserved ==
    (runner = "threads" /\ live_last.observed # None) =>
        /\ ~HalfClosed(live_last.observed)
        /\ ~BalanceAhead(live_last.observed)

\* the first half of C20 alone: the closing trade with the position listed
C20_NoHalfClosedObserved ==
    (runner = "threads" /\ live_last.observed # None) =>
        ~HalfClosed(live_last.observed)

\* the states C20 speaks of do not exist when each call is one step
C20_CallsAsOneStep ==
    runner = "engine" => (~HalfClosed(LiveEng) /\ (mode = "paper" => ~BalanceAhead(LiveEng)))

\* both runs of the pair have returned
PairDone == runner = "pair" /\ pc = "done"

C21_RunnersEqual ==
    PairDone => (capital = twin.capital /\ Len(trades) = Len(twin.trades))

C22_SignalLogPerBar ==
    runner = "validation" =>
        /\ Len(signals_log) = i - cfg.min_history
        /\ \A k \in 1..Len(signals_log) : signals_log[k].index = cfg.min_history + k - 1

\* what the code keeps of C22: one entry per call of analyze, in bar order
C22_SignalLogPerAnalyzeCall ==
    runner = "validation" =>
        /\ Len(signals_log) = Len(analyze_calls)
        /\ \A k \in 1..Len(signals_log) :
              /\ signals_log[k].index = analyze_calls[k]
              /\ signals_log[k].timestamp = timestamp_of(analyze_calls[k])
        /\ \A k \in 1..(Len(signals_log) - 1) :
              signals_log[k].index < signals_log[k + 1].index

\* the ledger is in order of exit time, no trade exits before it enters, and
\* no trade enters before the one before it has exited
LedgerOrdered(ts) ==
    /\ \A k \in 1..Len(ts) : ts[k].entry_time <= ts[k].exit_time
    /\ \A k \in 1..(Len(ts) - 1) :
          /\ ts[k].exit_time <= ts[k + 1].exit_time
          /\ ts[k].exit_time <= ts[k + 1].entry_time

\* C23: the trade ledger of a run only grows by appending (a step leaves the
\* entries it found as they were and in place), it is in order of exit
\* time, each trade exits no earlier than it enters, and each trade enters
\* no earlier than the previous one exited.
C23_LedgerAppendOnlyAndOrdered ==
    /\ [](IsReplay => LedgerOrdered(trades))
    /\ [][IsReplay => /\ Len(trades') >= Len(trades)
                      /\ Len(trades') <= Len(trades) + 1
                      /\ SubSeq(trades', 1, Len(trades)) = trades]_vars

\* C23 witness: a returned run with two round trips, the second one begun
\* after the first had ended
C23_Witness ==
    /\ IsReplay
    /\ pc = "done"
    /\ Len(trades) >= 2
    /\ trades[1].exit_time < trades[2].entry_time

\* run() has just been called on a table it rejects
RunRejected == runner = "kernel" /\ event'.branch = "invalid_input" /\ pc = "calls"

\* C24: a batch run on an empty table or a table missing a required column
\* fails before any bar is processed and before any state is changed:
\* analyze is not called, and capital, position, trade ledger and equity
\* curve are after the failed call what they were before it.
C24_RejectedRunChangesNothing ==
    [][RunRejected => /\ analyze_calls' = analyze_calls
                      /\ capital' = capital
                      /\ position' = position
                      /\ trades' = trades
                      /\ equity_curve' = equity_curve]_vars

\* what the code keeps of C24: analyze is not called and no bar is
\* processed, and an engine that has not been used is left as it was
C24_RejectedRunProcessesNoBar ==
    [][RunRejected => /\ analyze_calls' = analyze_calls
                      /\ i' = i
                      /\ (i = 0 => /\ capital' = capital
                                   /\ position' = position
                                   /\ trades' = trades
                                   /\ equity_curve' = equity_curve)]_vars

\* compare_with_backtest has returned
Compared == runner = "compare" /\ pc = "returned"

\* the return of a result in percent of its initial capital, as a fraction
\* of integers: 100 * (final - initial) / initial
ReturnPct(res) == Rat(100 * (res.final.n * res.initial.d - res.initial.n * res.final.d), res.initial.n * res.final.d)

\* C25: compare_with_backtest reports a match exactly when the absolute
\* return difference is at most the tolerance, the trade counts differ by
\* at most 1 and the final-capital difference (in percent of the batch
\* final capital, or of 1 if that is larger) is at most the tolerance; two
\* results with the same trade count, return and final capital match for
\* every tolerance.
C25_MatchWithinTolerance ==
    Compared =>
        LET bt == cfg.backtest_result
            tol == cfg.tolerance_pct
            within(x) == x.n * tol.d <= tol.n * x.d
        IN  /\ event.comparison.match <=>
                  /\ within(RAbs(RSub(ReturnPct(bt), ReturnPct(twin))))
                  /\ bt.num_trades - twin.num_trades \in {-1, 0, 1}
                  /\ within(RDiv(RMul(RAbs(RSub(bt.final, twin.final)), RInt(100)),
                                 IF RLt(bt.final, ROne) THEN ROne ELSE bt.final))
            /\ (bt.num_trades = twin.num_trades /\ bt.final = twin.final
                  /\ ReturnPct(bt) = ReturnPct(twin))
                  => event.comparison.match

\* C25 witness: two results with the same trade count, return and final
\* capital were compared with tolerance 0 and matched
C25_Witness ==
    /\ Compared
    /\ cfg.tolerance_pct = RZero
    /\ cfg.backtest_result = twin
    /\ twin.final # twin.initial
    /\ event.comparison.match

\* C25 witness of a refusal: only the trade counts are too far apart
C25_WitnessNoMatch ==
    /\ Compared
    /\ cfg.backtest_result.final = twin.final
    /\ cfg.backtest_result.initial = twin.initial
    /\ Abs(cfg.backtest_result.num_trades - twin.num_trades) = 2
    /\ ~event.comparison.match

\* a notifier raised in the call that has just been made
NotifierRaised(last) ==
    /\ last.notified # None
    /\ (last.notified.telegram = "raises" \/ last.notified.discord = "raises")

\* C26: when a notifier raises while the live engine opens or closes a
\* position, the call still reports success and raises nothing (so the
\* loop's iteration goes on), and the position change, the trade record and
\* the balance change stand: an open leaves the position listed with its
\* trade appended, a close leaves it removed with its trade appended, and
\* in PAPER mode the base balance is the position's quantity, or zero.
C26_NotifierFailureKeepsTrade ==
    [][(runner = "engine" /\ iters' = iters + 1 /\ NotifierRaised(live_last')) =>
          /\ live_last'.calls[1].ok
          /\ ~live_last'.raised
          /\ Len(trade_history') = Len(trade_history) + 1
          /\ live_last'.calls[1].op = "open_position" =>
                /\ ~has_position(LiveEng, Symbol)
                /\ Symbol \in DOMAIN positions'
                /\ trade_history'[Len(trade_history')].pnl = None
                /\ mode = "paper" =>
                      paper_balances'[base_of(Symbol)].free = positions'[Symbol].quantity
          /\ live_last'.calls[1].op = "close_position" =>
                /\ has_position(LiveEng, Symbol)
                /\ positions' = <<>>
                /\ trade_history'[Len(trade_history')].pnl # None
                /\ mode = "paper" => paper_balances'[base_of(Symbol)].free = RZero]_vars

\* C26 witness: a PAPER position was closed with both notifiers raising
C26_Witness ==
    /\ runner = "engine"
    /\ mode = "paper"
    /\ live_last # None
    /\ live_last.notified # None
    /\ live_last.notified.telegram = "raises"
    /\ live_last.notified.discord = "raises"
    /\ live_last.calls[1].op = "close_position"
    /\ live_last.calls[1].ok
    /\ positions = <<>>
    /\ Len(trade_history) = 2

\* the completed round trips of a trade history: its closing records
RoundTrips(th) == {k \in 1..Len(th) : th[k].pnl # None}

\* BacktestResult.win_rate (engine.py 80-85) over the round trips: the
\* percentage with a positive pnl, 0 when there is none
RoundTripWinRate(th) ==
    IF RoundTrips(th) = {} THEN RZero
    ELSE Rat(Cardinality({k \in RoundTrips(th) : th[k].pnl.n > 0}) * 100,
             Cardinality(RoundTrips(th)))

\* the performance summary has just been read
SummaryRead == runner = "engine" /\ live_last # None /\ "summary" \in DOMAIN live_last

\* C27: the live engine's performance summary reports a trade count equal
\* to the number of completed round trips, a win rate equal to the
\* percentage of round trips with a positive pnl, and an open-position
\* count equal to the number of open positions.
C27_SummaryCountsRoundTrips ==
    SummaryRead =>
        /\ "total_trades" \in DOMAIN live_last.summary
        /\ live_last.summary.total_trades = Cardinality(RoundTrips(trade_history))
        /\ live_last.summary.win_rate = RoundTripWinRate(trade_history)
        /\ live_last.summary.open_positions = Cardinality(DOMAIN positions)

\* what the code keeps of C27: when the summary has counts, its
\* open-position count is the number of open positions
C27_SummaryOpenPositions ==
    (SummaryRead /\ trade_history # <<>>) =>
        live_last.summary.open_positions = Cardinality(DOMAIN positions)

\* the summary of a session with one winning round trip counts two trades
\* and a win rate of 50 %
C27_OneWinCountedAsHalf ==
    /\ SummaryRead
    /\ Cardinality(RoundTrips(trade_history)) = 1
    /\ RoundTripWinRate(trade_history) = RInt(100)
    /\ positions = <<>>
    /\ live_last.summary.total_trades = 2
    /\ live_last.summary.win_rate = RInt(50)

\* a TradeSimulator call has just returned
SimCalled(op) == sim_last # None /\ sim_last.op = op

\* C28: an order's status only moves from pending to filled or from pending
\* to cancelled: a call leaves every order that is already filled or
\* cancelled as it was (status, fill price and fill time included); the
\* order create_market_order returns is filled; and cancel_order returns
\* True exactly when it has moved a pending order with that ID to cancelled.
C28_StatusOnlyLeavesPending ==
    [][/\ \A k \in DOMAIN order_objects :
            /\ k \in DOMAIN order_objects'
            /\ order_objects[k].status # "pending" =>
                  /\ order_objects'[k].status = order_objects[k].status
                  /\ order_objects'[k] = order_objects[k]
            /\ order_objects'[k].status \in {order_objects[k].status, "filled", "cancelled"}
       /\ sim_last'.op = "create_market_order" =>
             /\ order_objects'[sim_last'.result].status = "filled"
             /\ order_objects'[sim_last'.result].filled_price # None
       /\ sim_last'.op = "cancel_order" =>
             (sim_last'.result <=>
                 \E k \in DOMAIN order_objects :
                    /\ order_objects[k].order_id = sim_last'.order_id
                    /\ order_objects[k].status = "pending"
                    /\ order_objects'[k].status = "cancelled")]_vars

\* a filled order that is still listed has just been passed to cancel_order,
\* which answered False
C28_Witness ==
    /\ SimCalled("cancel_order")
    /\ ~sim_last.result
    /\ \E k \in listed(orders) :
          /\ order_objects[k].order_id = sim_last.order_id
          /\ order_objects[k].status = "filled"
          /\ order_objects[k].order_type = "limit"

\* a pending order has just been cancelled by cancel_order, which answered
\* True
C28_WitnessCancelled ==
    /\ SimCalled("cancel_order")
    /\ sim_last.result
    /\ \E k \in listed(orders) :
          /\ order_objects[k].order_id = sim_last.order_id
          /\ order_objects[k].status = "cancelled"

\* C29: check_pending_orders fills a pending limit buy exactly when the
\* candle's low is at or below the limit price, a pending limit sell exactly
\* when the candle's high is at or above it, both at exactly the limit price;
\* a pending sell stop-loss fills when the low is at or below its stop price;
\* and the list returned holds exactly the orders the call moved from
\* pending to filled, each once.
C29_LimitFillsAtLimitPrice ==
    [][sim_last'.op = "check_pending_orders" =>
          /\ \A k \in listed(orders) :
                order_objects[k].status = "pending" =>
                   /\ (order_objects[k].order_type = "limit" /\ order_objects[k].side = "buy") =>
                         /\ (order_objects'[k].status = "filled") <=> RLe(sim_last'.candle.low, order_objects[k].price)
                         /\ order_objects'[k].status = "filled" => order_objects'[k].filled_price = order_objects[k].price
                   /\ (order_objects[k].order_type = "limit" /\ order_objects[k].side = "sell") =>
                         /\ (order_objects'[k].status = "filled") <=> RLe(order_objects[k].price, sim_last'.candle.high)
                         /\ order_objects'[k].status = "filled" => order_objects'[k].filled_price = order_objects[k].price
                   /\ (order_objects[k].order_type = "stop_loss" /\ order_objects[k].side = "sell"
                         /\ RLe(sim_last'.candle.low, order_objects[k].stop_price)) =>
                         order_objects'[k].status = "filled"
          /\ listed(sim_last'.result) =
                {k \in DOMAIN order_objects :
                    order_objects[k].status = "pending" /\ order_objects'[k].status = "filled"}
          /\ \A a, b \in DOMAIN sim_last'.result :
                a # b => sim_last'.result[a] # sim_last'.result[b]]_vars

\* a check has just filled one limit order at its limit price and left
\* another limit order pending
C29_Witness ==
    /\ SimCalled("check_pending_orders")
    /\ \E k \in listed(sim_last.result) :
          /\ order_objects[k].order_type = "limit"
          /\ order_objects[k].status = "filled"
          /\ order_objects[k].filled_price = order_objects[k].price
    /\ \E k \in listed(orders) :
          /\ order_objects[k].order_type = "limit"
          /\ order_objects[k].status = "pending"

\* a check has just filled a sell stop-loss
C29_WitnessStopLoss ==
    /\ SimCalled("check_pending_orders")
    /\ \E k \in listed(sim_last.result) :
          /\ order_objects[k].order_type = "stop_loss"
          /\ order_objects[k].side = "sell"
          /\ order_objects[k].status = "filled"

\* C30: no two orders one TradeSimulator has created carry the same order
\* ID.
C30_OrderIdsUnique ==
    \A a, b \in DOMAIN order_objects :
       a # b => order_objects[a].order_id # order_objects[b].order_id

\* the orders in self.orders carry different IDs
C30_ListedIdsUnique ==
    \A a, b \in DOMAIN orders :
       a # b => order_objects[orders[a]].order_id # order_objects[orders[b]].order_id

\* two orders created on either side of a reset both carry SIM-000001
C30_FirstIdIssuedTwice ==
    \E a, b \in DOMAIN order_objects :
       /\ a # b
       /\ order_objects[a].order_id = <<"SIM-", 0, 0, 0, 0, 0, 1>>
       /\ order_objects[b].order_id = <<"SIM-", 0, 0, 0, 0, 0, 1>>

\* run_strategy is not executing: it was never called, or it has returned or
\* raised
LoopNotExecuting == runner = "live" /\ live_pc \in {"idle", "stopped", "failed"}

\* C31: _running is true only while a loop is executing: it is false before
\* the first start and false again once run_strategy has ended, whether by a
\* stop request or by an error raised during start-up.
C31_RunningOnlyWhileLoopExecutes == LoopNotExecuting => ~running

\* _running is false before the first start and after a loop that a stop
\* request ended
C31_StoppedLoopNotRunning ==
    (runner = "live" /\ live_pc \in {"idle", "stopped"}) => ~running

\* connect has raised: run_strategy is over and _running is still true
C31_DeadSessionReportedRunning == runner = "live" /\ live_pc = "failed" /\ running

\* the threads whose loop is executing on an engine that has not been asked
\* to stop
running_loops ==
    {t \in DOMAIN engines : engines[t].thread = "loop" /\ engines[engines[t].runs].running}

\* C32: no two live loops run at the same time: a start request accepted by
\* the API found no session starting or running, and every running loop
\* runs the engine a stop request would reach (the global engine).
C32_OneLoopReachableByStop ==
    runner = "api" =>
       /\ Cardinality(running_loops) <= 1
       /\ \A t \in running_loops : live_engine = [id |-> engines[t].runs]
       /\ (api_last # None /\ api_last.request = "start" /\ api_last.status = 200)
             => api_last.active = {}

\* two loops run at once
C32_TwoLoops == Cardinality(running_loops) = 2

\* a loop runs on an engine that is no longer the global one
C32_LoopUnreachable == \E t \in running_loops : live_engine # [id |-> engines[t].runs]

\* a PAPER engine with no position open
PaperFlat == mode = "paper" /\ positions = <<>> /\ runner \in {"live", "engine"}

\* the fees of the opening orders in the trade history
RECURSIVE entry_fees(_)
entry_fees(th) ==
    IF th = <<>> THEN RZero
    ELSE RAdd(IF th[1].pnl = None THEN th[1].fee ELSE RZero, entry_fees(Tail(th)))

\* C33: in PAPER mode, whenever no position is open, the free quote balance
\* equals the initial quote balance plus the session pnl of get_status (the
\* sum of pnl over the trade history).
C33_FlatBalanceIsInitialPlusPnl ==
    (PaperFlat /\ runner = "live") =>
       paper_free(LiveEng, quote_of(Symbol)) = RAdd(InitialBalance, sum_pnl_or_zero(trade_history))

\* after the first round trip, the free quote balance is the initial balance
\* plus the session pnl less the fee of the opening order
C33_FlatBalanceShortByEntryFees ==
    (PaperFlat /\ runner = "live" /\ Len(trade_history) = 2) =>
       paper_free(LiveEng, quote_of(Symbol)) =
          RSub(RAdd(InitialBalance, sum_pnl_or_zero(trade_history)), entry_fees(trade_history))

\* a round trip is closed and the balance is below initial plus session pnl
C33_BalanceBelowReported ==
    /\ PaperFlat
    /\ runner = "live"
    /\ Len(trade_history) = 2
    /\ RLt(paper_free(LiveEng, quote_of(Symbol)), RAdd(InitialBalance, sum_pnl_or_zero(trade_history)))

\* the quantity of the position open for the symbol, zero when flat
OpenQuantity ==
    IF has_position(LiveEng, Symbol) THEN get_position(LiveEng, Symbol).quantity ELSE RZero

\* no paper balance is negative and the free base balance is the quantity of
\* the open position
PaperBalancesSound ==
    /\ \A c \in DOMAIN paper_balances :
          paper_balances[c].free.n >= 0 /\ paper_balances[c].used.n >= 0
    /\ paper_free(LiveEng, base_of(Symbol)) = OpenQuantity

\* C34: in PAPER mode no balance is ever negative and the free base balance
\* always equals the quantity of the open position (zero when flat), so a
\* close of an open paper position that got its ticker price never fails.
C34_PaperBalancesCoverPosition ==
    /\ []((runner = "live" /\ mode = "paper") => PaperBalancesSound)
    /\ [][(IterationStep /\ mode = "paper") =>
            \A k \in DOMAIN live_last'.calls :
               (live_last'.calls[k].op = "close_position" /\ live_last'.calls[k].ext # None)
                  => live_last'.calls[k].ok]_vars

\* a paper position is open with the base balance equal to its quantity
C34_Witness ==
    /\ runner = "live"
    /\ mode = "paper"
    /\ has_position(LiveEng, Symbol)
    /\ paper_free(LiveEng, base_of(Symbol)) = get_position(LiveEng, Symbol).quantity
    /\ paper_free(LiveEng, base_of(Symbol)).n > 0

\* a paper position has just been closed: the base balance is back at zero
C34_WitnessClosed ==
    /\ runner = "live"
    /\ mode = "paper"
    /\ live_last # None
    /\ \E k \in DOMAIN live_last.calls :
          live_last.calls[k].op = "close_position" /\ live_last.calls[k].ok
    /\ ~has_position(LiveEng, Symbol)
    /\ paper_free(LiveEng, base_of(Symbol)) = RZero

\* the positions in the trade history of the opening records (no pnl) and
\* of the closing records
EntryRecords == {k \in DOMAIN trade_history : trade_history[k].pnl = None}

ExitRecords == {k \in DOMAIN trade_history : trade_history[k].pnl # None}

\* C35: in the live engine's trade history entry and exit records alternate,
\* starting with an entry, and the entries less the exits are the positions
\* open for the symbol (0 or 1), after any sequence of iterations in any
\* mode, iterations that fail part-way included.
C35_EntriesAndExitsAlternate ==
    runner = "live" =>
       /\ \A k \in DOMAIN trade_history : (k \in EntryRecords) <=> (k % 2 = 1)
       /\ Cardinality(EntryRecords) - Cardinality(ExitRecords) = Cardinality(DOMAIN positions)
       /\ Cardinality(DOMAIN positions) \in {0, 1}

\* a second position is open after a closed round trip
C35_Witness ==
    /\ runner = "live"
    /\ Len(trade_history) = 3
    /\ has_position(LiveEng, Symbol)

\* an iteration raised part-way with a position open and its entry recorded
C35_WitnessRaised ==
    /\ runner = "live"
    /\ live_last # None
    /\ live_last.raised
    /\ has_position(LiveEng, Symbol)
    /\ trade_history # <<>>

\* the listed take-profit sell orders that are pending
PendingTakeProfitSells ==
    {k \in listed(orders) :
        /\ order_objects[k].status = "pending"
        /\ order_objects[k].order_type = "take_profit"
        /\ order_objects[k].side = "sell"}

\* C36: a pending take-profit sell order fills only on a candle whose high
\* reaches its trigger price: a check against a candle whose high stays
\* below the trigger leaves it pending.
C36_TakeProfitSellNeedsHigh ==
    [][sim_last'.op = "check_pending_orders" =>
          \A k \in PendingTakeProfitSells :
             order_objects'[k].status = "filled" =>
                RLe(order_objects[k].stop_price, sim_last'.candle.high)]_vars

\* what the code does: a pending take-profit sell fills exactly when the
\* candle's low is at or below its trigger price, like a stop-loss sell
C36_TakeProfitSellFillsOnLow ==
    [][sim_last'.op = "check_pending_orders" =>
          \A k \in PendingTakeProfitSells :
             (order_objects'[k].status = "filled") <=>
                RLe(sim_last'.candle.low, order_objects[k].stop_price)]_vars

\* a take-profit sell has just been filled by a candle whose high is below
\* its trigger price
C36_FilledBelowTrigger ==
    /\ SimCalled("check_pending_orders")
    /\ \E k \in listed(sim_last.result) :
          /\ order_objects[k].order_type = "take_profit"
          /\ order_objects[k].side = "sell"
          /\ RLt(sim_last.candle.high, order_objects[k].stop_price)

\* the restarts (every start but the first) made in the restart_window that
\* ends with the start numbered j
RestartsInWindow(j) ==
    {k \in 2..j : started[k].time > started[j].time - cfg.restart_window}

\* the restart times _should_restart counts at the time t_now
CountedRestarts(t_now) ==
    SelectSeq(restart_times, LAMBDA t : t > t_now - cfg.restart_window)

\* C37: the supervisor never restarts the process more than max_restarts
\* times within any restart_window; when the limit is reached inside the
\* window it stops supervising (_running becomes False), start() returns,
\* and no further process is started afterwards.
C37_RestartsLimitedPerWindow ==
    /\ [](\A j \in 2..Len(started) : Cardinality(RestartsInWindow(j)) <= cfg.max_restarts)
    /\ [][(sup_pc = "should_restart" /\ sup_pc' # sup_pc /\ Len(CountedRestarts(clock)) >= cfg.max_restarts)
            => (sup_pc' = "returned" /\ ~sup_running' /\ started' = started)]_vars
    /\ [][sup_pc = "returned" => (sup_pc' = "returned" /\ started' = started)]_vars

\* start() has returned, without any shutdown request, because the limit was
\* reached after at least one restart
C37_Witness ==
    /\ sup_pc = "returned"
    /\ ~shutdown_requested
    /\ ~sup_running
    /\ Len(started) >= 2
    /\ Len(restart_times) >= cfg.max_restarts

\* more restarts than max_restarts were made in all, old ones having left
\* the window
C37_WitnessOldRestartsForgotten ==
    /\ ~shutdown_requested
    /\ Len(started) > cfg.max_restarts + 1

\* C38: after a shutdown is requested (SIGTERM, SIGINT or stop()) the
\* supervisor starts no new process, whatever it was doing when the request
\* arrived, and start() eventually returns.
C38_NoStartAfterShutdown ==
    /\ [][shutdown_requested => started' = started]_vars
    /\ (shutdown_requested ~> sup_pc = "returned")

\* a request that does not fall between the loop test of line 187 and the
\* assignment of self._process at line 189 is followed by no start
C38_NoStartUnlessRequestedInsideStart ==
    [][(shutdown_requested /\ sup_pc # "start_process")
         => (sup_pc' # "start_process" /\ started' = started)]_vars

\* and start() returns after it
C38_ReturnsUnlessRequestedInsideStart ==
    (shutdown_requested /\ sup_pc # "start_process"
       /\ \A k \in 1..Len(started) : ~started[k].shutdown_requested)
    ~> sup_pc = "returned"

\* a child started after the request is running, and start() waits for it
C38_StartedAfterShutdown ==
    /\ shutdown_requested
    /\ ~sup_running
    /\ sup_pc = "monitoring"
    /\ process.alive
    /\ started[Len(started)].shutdown_requested

\* C39: the result of a batch run depends only on that run's inputs: a run
\* on an engine that has completed other runs returns the same trades,
\* equity curve and final capital as the same run on an engine just
\* constructed, and a later run never changes the trade list of a result
\* returned earlier.
C39_RunDependsOnlyOnItsInputs ==
    /\ [](pc = "done" =>
            /\ lists[results[Len(results)].trades] = twin.trades
            /\ results[Len(results)].equity_curve = twin.equity_curve
            /\ results[Len(results)].final_capital = twin.capital)
    /\ [][\A k \in 1..Len(results) :
             lists'[results[k].trades] = lists[results[k].trades]]_vars

\* the second run on the engine has returned; both runs traded, and not alike
C39_Witness ==
    /\ runner = "rerun"
    /\ pc = "done"
    /\ Len(results) = 2
    /\ lists[results[1].trades] # <<>>
    /\ lists[results[2].trades] # <<>>
    /\ lists[results[1].trades] # lists[results[2].trades]
    /\ results[1].final_capital # results[2].final_capital

\* a later run is appending to self.trades while an earlier result is held
C39_WitnessLaterRunTrades ==
    /\ runner = "rerun"
    /\ pc = "loop"
    /\ Len(results) >= 1
    /\ trades # <<>>
    /\ lists[results[1].trades] # <<>>

====
